---- MODULE Spec2Model ----
(***************************************************************************)
(* A model of the pfda-vscode remote file engine.                          *)
(*                                                                         *)
(*   - the recursive remote directory deletion of PfdaCli                  *)
(*     (src/src/pfdaCli.ts, deleteRemoteDirectory and                      *)
(*     _deleteRemoteDirectoryInternal), as the stack of its suspended      *)
(*     async invocations, together with the remote store the external      *)
(*     executable acts on;                                                 *)
(*   - the node cache of PfdaTreeDataProvider (src/unnamed/part_004).      *)
(***************************************************************************)
EXTENDS Integers, Sequences, FiniteSets, TLC

\* Largest number of remote entries below and including the deleted directory.
MaxNodes == 3
\* Largest number of deleteRemoteDirectory invocations on the same directory.
MaxRuns == 2
\* Largest number of refresh calls of the tree provider.
MaxRefresh == 1
\* Largest number of getChildren calls of the tree provider.
MaxReqs == 2
\* Largest number of items in one ls response to the tree provider.
MaxListing == 1
MaxChunks == 4

VARIABLES
    tree,       \* the remote entries as first listed: node -> [parent, type, alt]
    remote,     \* the nodes that currently exist on the remote store
    remote0,    \* the value of remote when the current invocation started
    stack,      \* the suspended _deleteRemoteDirectoryInternal invocations
    inflight,   \* the callPfdaCli calls issued and not yet settled
    token,      \* whether the invocation has a cancellation token (showProgress)
    cancelled,  \* token.isCancellationRequested
    status,     \* the promise of deleteRemoteDirectory
    prev,       \* how the previous invocation on this directory settled
    runs,       \* number of invocations started so far
    delSpace,   \* options.spaceId of the invocation and its nested invocations
    faults,     \* whether the executable failed a call it could have served
    trace,      \* what the current invocation did, in order
    sink        \* the updates given to progress.report, in order

delVars == <<tree, remote, remote0, stack, inflight, token, cancelled, status,
             prev, runs, delSpace, faults, trace, sink>>

VARIABLES
    nodes,          \* PfdaTreeDataProvider.nodes: id -> node
    activeSpaceId,  \* PfdaTreeDataProvider.activeSpaceId
    fired,          \* number of _onDidChangeTreeData.fire calls
    spaceAt,        \* the arguments of the refresh calls so far, in order
    reqs,           \* the getChildren calls waiting for their ls call
    nextSer,        \* serial number of the next getChildren call
    parentOf,       \* the last getParent call: its element and what it returned
    answer          \* what the last settled getChildren call returned

provVars == <<nodes, activeSpaceId, fired, spaceAt, reqs, nextSer, parentOf,
              answer>>

VARIABLES
    opsSpace,     \* FileOperations.activeSpaceId
    openerSpace,  \* FileOpener.activeSpaceId
    procs,        \* the processes callPfdaCli spawned that have not closed
    settled,      \* the callPfdaCli call settled last, and how
    opDone,       \* the command that ended last: what it showed and returned
    confirm       \* the confirmation answered in the command under way

cliVars == <<opsSpace, openerSpace, procs, settled, opDone, confirm>>

VARIABLES
    pfdaStatusBarItem,  \* the text and tooltip of the status bar item
    ups                 \* the uploadFiles calls: their counters, process and promise

upVars == <<pfdaStatusBarItem, ups>>

VARIABLES
    drop,      \* the handleDrop call: its position and what it did
    dndSpace   \* PfdaDragAndDropController.activeSpaceId

dndVars == <<drop, dndSpace>>

VARIABLES
    explorerSpace  \* PfdaFileExplorer.activeSpaceId

expVars == <<explorerSpace>>

vars == <<delVars, provVars, cliVars, upVars, dndVars, expVars>>

None == <<>>

\* An undefined space id, and an argument list without -space-id.
Undef == "undefined"
Omitted == "(omitted)"
Spaces == {Undef, "my-home", "space-1"}

----------------------------------------------------------------------------
(* The remote store.                                                       *)

\* The entry records a node of a tree of n entries may have: node 1 is the
\* directory being deleted; every other node lies in an earlier folder.
\* alt says what the listing reports as the numeric id of a file: nothing,
\* the same value as its uid, or a different value.
RootRec == [parent |-> 0, type |-> "Folder", alt |-> "none"]

NodeRecs(t) ==
    { [parent |-> p, type |-> ty, alt |-> a] :
        p \in { q \in 1..Len(t) : t[q].type = "Folder" /\ q >= t[Len(t)].parent },
        ty \in {"Folder", "File"},
        a \in {"none", "same", "diff"} }

RECURSIVE TreesOfSize(_)
TreesOfSize(n) ==
    IF n = 1 THEN { <<RootRec>> }
    ELSE UNION { { Append(t, r) :
                     r \in { x \in NodeRecs(t) : x.type = "Folder" => x.alt = "none" } } :
                 t \in TreesOfSize(n - 1) }

AllTrees == UNION { TreesOfSize(n) : n \in 1..MaxNodes }

RECURSIVE SortedSeq(_)
SortedSeq(S) ==
    IF S = {} THEN <<>>
    ELSE LET m == CHOOSE x \in S : \A y \in S : x <= y
         IN  <<m>> \o SortedSeq(S \ {m})

\* The identifiers the listing reports for node n.
DirId(n) == <<"dir", n>>
Uid(n) == <<"uid", n>>
NumId(n) == <<"id", n>>

\* One raw item of an ls response.
ItemOf(n) ==
    IF tree[n].type = "Folder"
    THEN [type |-> "Folder", uid |-> None, id |-> DirId(n)]
    ELSE [type |-> "File", uid |-> Uid(n),
          id |-> CASE tree[n].alt = "none" -> None
                   [] tree[n].alt = "same" -> Uid(n)
                   [] OTHER -> NumId(n)]

NodeOf(ident) == ident[2]

ChildrenOf(n, present) == { c \in present : c \in DOMAIN tree /\ tree[c].parent = n }

RECURSIVE Descendants(_, _)
Descendants(n, present) ==
    LET cs == ChildrenOf(n, present)
    IN  cs \cup UNION { Descendants(c, present) : c \in cs }

\* The items ls reports for a folder, in the order the remote lists them.
Listing(n) ==
    LET s == SortedSeq(ChildrenOf(n, remote))
    IN  [i \in 1..Len(s) |-> ItemOf(s[i])]

\* The three response shapes of ls the engine accepts.
RespKinds == {"array", "files", "object"}

Scalar == [type |-> "number", uid |-> None, id |-> None]

Response(kind, items) ==
    CASE kind = "array" -> [kind |-> kind, list |-> items, files |-> <<>>, values |-> <<>>]
      [] kind = "files" -> [kind |-> kind, list |-> <<>>, files |-> items, values |-> <<>>]
      [] OTHER -> [kind |-> kind, list |-> <<>>, files |-> <<>>,
                   values |-> <<Scalar>> \o items]

\* Whether the executable can serve a call on the present remote store.
CanServe(c) ==
    LET n == NodeOf(c.arg)
    IN  /\ n \in remote
        /\ CASE c.op = "ls" -> tree[n].type = "Folder"
             [] c.op = "rm" -> tree[n].type = "File"
             [] OTHER -> tree[n].type = "Folder" /\ ChildrenOf(n, remote) = {}

\* The remote store after call c succeeded.
Effect(c) == IF c.op = "ls" THEN remote ELSE remote \ {NodeOf(c.arg)}

----------------------------------------------------------------------------
(* What an invocation did: calls issued, calls settled, invocations that   *)
(* returned or threw, and the cancellation request, in order.              *)

CallRec(op, arg) == [op |-> op, arg |-> arg]

\* The space of a call is the one the file operations hold when it is
\* issued.
CallSpaceHeld(spaceId, held) == IF held # "my-home" THEN held ELSE Undef

\* The space a call of the deletion is built with: the parameter spaceId of
\* the invocation, passed on to every nested invocation.
CallSpace(spaceId, held) == spaceId

\* A call issued, with the space it is built with and the space the file
\* operations hold at that moment.
EvCall(c) ==
    [k |-> "call", op |-> c.op, arg |-> c.arg, ok |-> TRUE, items |-> <<>>, at |-> 0,
     space |-> CallSpace(delSpace, opsSpace), held |-> opsSpace]
EvDone(c, ok, items) ==
    [k |-> "done", op |-> c.op, arg |-> c.arg, ok |-> ok, items |-> items, at |-> 0,
     space |-> Undef, held |-> Undef]
EvRet(dir, why, at) ==
    [k |-> "ret", op |-> why, arg |-> dir, ok |-> TRUE, items |-> <<>>, at |-> at,
     space |-> Undef, held |-> Undef]
EvThrow(dir) ==
    [k |-> "throw", op |-> "none", arg |-> dir, ok |-> FALSE, items |-> <<>>, at |-> 0,
     space |-> Undef, held |-> Undef]
EvCancel ==
    [k |-> "cancel", op |-> "none", arg |-> None, ok |-> TRUE, items |-> <<>>, at |-> 0,
     space |-> Undef, held |-> Undef]

----------------------------------------------------------------------------
(* PfdaCli._deleteRemoteDirectoryInternal                                  *)

\* The object shape of the ls result is not taken apart.
ExtractItemsNoObject(resp) == IF resp.kind = "array" THEN resp.list ELSE resp.files

\* let items = ...: the three accepted shapes of the ls result.
ExtractItems(resp) ==
    IF resp.kind = "array" THEN resp.list
    ELSE IF resp.kind = "files" THEN resp.files
    ELSE SelectSeq(resp.values, LAMBDA v : v.type # "number")

\* const itemId = item.type === "Folder" ? item.id : item.uid
ItemId(item) == IF item.type = "Folder" THEN item.id ELSE item.uid

\* const isDirectory = item.type === "Folder"
IsDirectory(item) == item.type = "Folder"

\* The alternative id is tried whenever there is one, equal or not.
HasAlternativeAny(item) == item.id # None

\* if (item.id && itemId !== item.id)
HasAlternative(item) == item.id # None /\ ItemId(item) # item.id

\* The cancellation flag is not looked at.
CancelNever == FALSE

\* if (token?.isCancellationRequested)
CancelRequested == token /\ cancelled

\* The loop leaves out the last item of the listing.
LoopDoneEarly(f) == f.idx >= Len(f.items)

\* for (const item of items): the loop has run out of items.
LoopDone(f) == f.idx > Len(f.items)

\* The total stated is the number of entries under the directory removed.
TotalItemsOfTree(f) == Len(tree) - 1

\* const totalItems = items.length
TotalItems(f) == Len(f.items)

\* processedCount++ and the step to the next item.
Advance(f) ==
    [f EXCEPT !.idx = @ + 1, !.processed = @ + 1, !.pc = "loop", !.wait = None]

\* A new invocation, suspended on its ls call.
LsCall(dir) == CallRec("ls", dir)
Enter(dir) ==
    [dir |-> dir, items |-> <<>>, idx |-> 1, processed |-> 0, pc |-> "ls",
     wait |-> LsCall(dir)]

\* The rm call is not awaited: the loop goes on while it is in flight.
AfterIssueRmNoAwait(f, c) == Advance(f)

\* await this.callPfdaCli(rmArgs): the invocation suspends on the call.
AfterIssueRm(f, c) == [f EXCEPT !.pc = "rm", !.wait = c]

\* The error of a subdirectory's deletion is swallowed and the loop goes on.
OnChildRejectedSwallow(parent) == Advance(parent)

\* A failed fallback rm is swallowed and the loop goes on.
AfterAltRmSwallow(f, ok) == Advance(f)

\* The fallback rm's result is ignored and the original error is thrown.
AfterAltRmAlwaysThrow(f, ok) == [f EXCEPT !.pc = "throw", !.wait = None]

\* The loop stops after the first item of a listing.
AfterChildStop(parent) ==
    [parent EXCEPT !.idx = Len(parent.items) + 1, !.processed = @ + 1,
                   !.pc = "loop", !.wait = None]

\* await this._deleteRemoteDirectoryInternal(...) returned: the item is done.
AfterChild(parent) == Advance(parent)

\* await this._deleteRemoteDirectoryInternal(...) threw: the invocation's
\* own catch takes it and throws again.
OnChildRejected(parent) == [parent EXCEPT !.pc = "throw", !.wait = None]

\* A failed ls call counts as an empty listing.
AfterLsLenient(f, ok, items) ==
    [f EXCEPT !.items = items, !.pc = "loop", !.wait = None]

\* const result = await this.callPfdaCli(lsArgs) inside the try block: the
\* items of the listing, or the error that the catch block takes.
AfterLs(f, ok, items) ==
    IF ok THEN [f EXCEPT !.items = items, !.pc = "loop", !.wait = None]
    ELSE [f EXCEPT !.pc = "throw", !.wait = None]

\* The state of the invocation after its primary rm settled.
AfterPrimaryRm(f, ok) ==
    IF ok THEN Advance(f) ELSE [f EXCEPT !.pc = "retry", !.wait = None]

\* The state of the invocation after its fallback rm settled.
AfterAltRm(f, ok) ==
    IF ok THEN Advance(f) ELSE [f EXCEPT !.pc = "throw", !.wait = None]

\* The state of the invocation after its rmdir settled with an error.
AfterRmdirFailed(f) == [f EXCEPT !.pc = "throw", !.wait = None]

\* if (progress) { progress.report({ message: `Deleted
\* ${processedCount}/${totalItems} items ...` }) }, which follows
\* processedCount++: the update made when frame f became g.
ReportOf(f, g) ==
    IF token /\ g.processed > f.processed
    THEN << [dir |-> f.dir, item |-> f.items[f.idx],
             processedCount |-> g.processed, totalItems |-> TotalItems(f)] >>
    ELSE <<>>

Top == stack[Len(stack)]
Rest == SubSeq(stack, 1, Len(stack) - 1)
SetTop(f) == [stack EXCEPT ![Len(stack)] = f]
Running == status = "running" /\ stack # <<>>
AtItem == Running /\ Top.pc = "loop" /\ ~LoopDone(Top)
Item == Top.items[Top.idx]
Awaits(c, pc) == Running /\ Top.pc = pc /\ Top.wait = c

\* Whether the executable serves or fails a call: it fails what it cannot
\* serve, and may fail what it could.
Outcome(c, ok) ==
    /\ ok => CanServe(c)
    /\ faults' = (faults \/ (~ok /\ CanServe(c)))
    /\ remote' = IF ok THEN Effect(c) ELSE remote

\* The top invocation returns; its caller goes on, or the task resolves.
ReturnTop(why, before) ==
    /\ trace' = before \o <<EvRet(Top.dir, why, Top.idx)>>
    /\ IF Rest = <<>>
       THEN stack' = <<>> /\ status' = "resolved" /\ sink' = sink
       ELSE /\ stack' = [Rest EXCEPT ![Len(Rest)] = AfterChild(@)]
            /\ sink' = sink \o ReportOf(Rest[Len(Rest)], AfterChild(Rest[Len(Rest)]))
            /\ status' = status

\* deleteRemoteDirectory(directoryId, {showProgress})
DelStart(showProgress, spaceId) ==
    /\ status # "running"
    /\ runs < MaxRuns
    /\ runs' = runs + 1
    /\ prev' = IF status = "idle" THEN "none" ELSE status
    /\ status' = "running"
    /\ token' = showProgress
    /\ delSpace' = spaceId
    /\ cancelled' = FALSE
    /\ faults' = FALSE
    /\ remote0' = remote
    /\ stack' = <<Enter(DirId(1))>>
    /\ inflight' = {LsCall(DirId(1))}
    /\ trace' = <<[EvCall(LsCall(DirId(1))) EXCEPT
                      !.space = CallSpace(spaceId, opsSpace)]>>
    /\ sink' = <<>>
    /\ UNCHANGED <<expVars, provVars, cliVars, upVars, dndVars, tree, remote>>

\* The user presses Cancel on the progress notification.
Cancel ==
    /\ status = "running"
    /\ token
    /\ ~cancelled
    /\ cancelled' = TRUE
    /\ trace' = Append(trace, EvCancel)
    /\ UNCHANGED <<expVars, provVars, cliVars, upVars, dndVars, delSpace, tree, remote, remote0, stack, inflight, token, status, prev,
                   runs, faults, sink>>

\* const result = await this.callPfdaCli(lsArgs) settles.
DelLsDone(c, ok, kind) ==
    /\ c \in inflight
    /\ Awaits(c, "ls")
    /\ Outcome(c, ok)
    /\ inflight' = inflight \ {c}
    /\ LET items == IF ok THEN ExtractItems(Response(kind, Listing(NodeOf(c.arg))))
                    ELSE <<>>
       IN  /\ trace' = Append(trace, EvDone(c, ok, items))
           /\ stack' = SetTop(AfterLs(Top, ok, items))
    /\ UNCHANGED <<expVars, provVars, cliVars, upVars, dndVars, delSpace, tree, remote0, token, cancelled, status, prev, runs,
                   sink>>

\* Top of an iteration with the cancellation flag set: return.
DelCancelReturn ==
    /\ AtItem
    /\ CancelRequested
    /\ ReturnTop("cancel", trace)
    /\ UNCHANGED <<expVars, provVars, cliVars, upVars, dndVars, delSpace, tree, remote, remote0, inflight, token, cancelled, prev, runs,
                   faults>>

\* The item is a folder: recurse into it.
DelRecurse ==
    /\ AtItem
    /\ ~CancelRequested
    /\ IsDirectory(Item)
    /\ LET dir == ItemId(Item)
       IN  /\ stack' = Append(SetTop([Top EXCEPT !.pc = "child"]), Enter(dir))
           /\ inflight' = inflight \cup {LsCall(dir)}
           /\ trace' = Append(trace, EvCall(LsCall(dir)))
    /\ UNCHANGED <<expVars, provVars, cliVars, upVars, dndVars, delSpace, tree, remote, remote0, token, cancelled, status, prev, runs,
                   faults, sink>>

\* The item is a file: rm by its uid.
DelIssueRm ==
    /\ AtItem
    /\ ~CancelRequested
    /\ ~IsDirectory(Item)
    /\ LET c == CallRec("rm", ItemId(Item))
       IN  /\ stack' = SetTop(AfterIssueRm(Top, c))
           /\ sink' = sink \o ReportOf(Top, AfterIssueRm(Top, c))
           /\ inflight' = inflight \cup {c}
           /\ trace' = Append(trace, EvCall(c))
    /\ UNCHANGED <<expVars, provVars, cliVars, upVars, dndVars, delSpace, tree, remote, remote0, token, cancelled, status, prev, runs,
                   faults>>

\* The primary rm settles (or an rm nothing waits for any more).
DelRmDone(c, ok) ==
    /\ c \in inflight
    /\ c.op = "rm"
    /\ status = "running"
    /\ Awaits(c, "rm") \/ \A i \in 1..Len(stack) : stack[i].wait # c
    /\ Outcome(c, ok)
    /\ inflight' = inflight \ {c}
    /\ trace' = Append(trace, EvDone(c, ok, <<>>))
    /\ stack' = IF Awaits(c, "rm") THEN SetTop(AfterPrimaryRm(Top, ok)) ELSE stack
    /\ sink' = IF Awaits(c, "rm") THEN sink \o ReportOf(Top, AfterPrimaryRm(Top, ok))
               ELSE sink
    /\ UNCHANGED <<expVars, provVars, cliVars, upVars, dndVars, delSpace, tree, remote0, token, cancelled, status, prev, runs>>

\* catch (fileError): rm by the numeric id when there is one that differs.
DelIssueAlt ==
    /\ Running
    /\ Top.pc = "retry"
    /\ HasAlternative(Item)
    /\ LET c == CallRec("rm", Item.id)
       IN  /\ stack' = SetTop([Top EXCEPT !.pc = "alt", !.wait = c])
           /\ inflight' = inflight \cup {c}
           /\ trace' = Append(trace, EvCall(c))
    /\ UNCHANGED <<expVars, provVars, cliVars, upVars, dndVars, delSpace, tree, remote, remote0, token, cancelled, status, prev, runs,
                   faults, sink>>

\* catch (fileError): no alternative id; throw fileError.
DelNoAlt ==
    /\ Running
    /\ Top.pc = "retry"
    /\ ~HasAlternative(Item)
    /\ stack' = SetTop([Top EXCEPT !.pc = "throw"])
    /\ UNCHANGED <<expVars, provVars, cliVars, upVars, dndVars, delSpace, tree, remote, remote0, inflight, token, cancelled, status, prev,
                   runs, faults, trace, sink>>

\* The fallback rm settles.
DelAltDone(c, ok) ==
    /\ c \in inflight
    /\ Awaits(c, "alt")
    /\ Outcome(c, ok)
    /\ inflight' = inflight \ {c}
    /\ trace' = Append(trace, EvDone(c, ok, <<>>))
    /\ stack' = SetTop(AfterAltRm(Top, ok))
    /\ sink' = sink \o ReportOf(Top, AfterAltRm(Top, ok))
    /\ UNCHANGED <<expVars, provVars, cliVars, upVars, dndVars, delSpace, tree, remote0, token, cancelled, status, prev, runs>>

\* All items processed: rmdir the directory itself.
DelIssueRmdir ==
    /\ Running
    /\ Top.pc = "loop"
    /\ LoopDone(Top)
    /\ LET c == CallRec("rmdir", Top.dir)
       IN  /\ stack' = SetTop([Top EXCEPT !.pc = "rmdir", !.wait = c])
           /\ inflight' = inflight \cup {c}
           /\ trace' = Append(trace, EvCall(c))
    /\ UNCHANGED <<expVars, provVars, cliVars, upVars, dndVars, delSpace, tree, remote, remote0, token, cancelled, status, prev, runs,
                   faults, sink>>

\* The rmdir settles: the invocation returns, or throws rmdirError.
DelRmdirDone(c, ok) ==
    /\ c \in inflight
    /\ Awaits(c, "rmdir")
    /\ Outcome(c, ok)
    /\ inflight' = inflight \ {c}
    /\ IF ok
       THEN ReturnTop("done", Append(trace, EvDone(c, ok, <<>>)))
       ELSE /\ trace' = Append(trace, EvDone(c, ok, <<>>))
            /\ stack' = SetTop(AfterRmdirFailed(Top))
            /\ sink' = sink
            /\ status' = status
    /\ UNCHANGED <<expVars, provVars, cliVars, upVars, dndVars, delSpace, tree, remote0, token, cancelled, prev, runs>>

\* catch (error) { throw new Error('Failed to delete directory: ...') }
DelPropagate ==
    /\ Running
    /\ Top.pc = "throw"
    /\ trace' = Append(trace, EvThrow(Top.dir))
    /\ IF Rest = <<>>
       THEN stack' = <<>> /\ status' = "rejected" /\ sink' = sink
       ELSE /\ stack' = [Rest EXCEPT ![Len(Rest)] = OnChildRejected(@)]
            /\ sink' = sink \o ReportOf(Rest[Len(Rest)],
                                         OnChildRejected(Rest[Len(Rest)]))
            /\ status' = status
    /\ UNCHANGED <<expVars, provVars, cliVars, upVars, dndVars, delSpace, tree, remote, remote0, inflight, token, cancelled, prev, runs,
                   faults>>

DelInit ==
    /\ tree \in AllTrees
    /\ remote = DOMAIN tree
    /\ remote0 = DOMAIN tree
    /\ stack = <<>>
    /\ inflight = {}
    /\ token = FALSE
    /\ cancelled = FALSE
    /\ status = "idle"
    /\ prev = "none"
    /\ runs = 0
    /\ delSpace = Undef
    /\ faults = FALSE
    /\ trace = <<>>
    /\ sink = <<>>

----------------------------------------------------------------------------
(* PfdaTreeDataProvider: the node cache and its listing calls.             *)
(* Names and paths are sequences of one-character strings.                 *)

\* The extension field of a directory node (undefined).
NoExt == <<"(undefined)">>

\* getChildren(undefined): no element.
NoNode ==
    [id |-> None, label |-> <<>>, path |-> <<>>, isDirectory |-> FALSE,
     extension |-> NoExt, parent |-> None, from |-> 0, reported |-> <<>>]

EmptyMap == [x \in {} |-> NoNode]

\* The raw items an ls response may hold, in the order the remote lists them.
RawItems ==
    << [type |-> "Folder", uid |-> None, id |-> <<"dir", 1>>,
        name |-> <<"a">>, path |-> <<"a">>],
       [type |-> "File", uid |-> <<"uid", 2>>, id |-> <<"id", 2>>,
        name |-> <<"b", ".", "A">>, path |-> <<>>],
       [type |-> "File", uid |-> None, id |-> <<"id", 3>>,
        name |-> <<"a", "b">>, path |-> <<>>],
       [type |-> "File", uid |-> <<"uid", 2>>, id |-> <<"id", 2>>,
        name |-> <<"b", ".", "A">>, path |-> <<"a", "/", "b", ".", "A">>],
       [type |-> "File", uid |-> <<"uid", 5>>, id |-> None,
        name |-> <<>>, path |-> <<>>] >>

\* The listings of at most MaxListing of these items.
RawListings ==
    { [i \in 1..Len(SortedSeq(S)) |-> RawItems[SortedSeq(S)[i]]] :
        S \in { T \in SUBSET (1..Len(RawItems)) : Cardinality(T) <= MaxListing } }

\* The shapes of an ls result: an array, an object with a files array,
\* anything else.
ListingKinds == {"array", "files", "other"}

LsResult(kind, items) ==
    CASE kind = "array" -> [kind |-> kind, list |-> items, files |-> <<>>]
      [] kind = "files" -> [kind |-> kind, list |-> <<>>, files |-> items]
      [] OTHER -> [kind |-> kind, list |-> <<>>, files |-> <<>>]

\* String.prototype.startsWith
StartsWith(str, pre) == Len(pre) <= Len(str) /\ SubSeq(str, 1, Len(pre)) = pre

\* path.join of two non-empty relative paths without . or .. segments.
PathJoin(a, b) == a \o <<"/">> \o b

\* String.prototype.toLowerCase over the letters used here.
LowerChar(ch) == IF ch = "A" THEN "a" ELSE IF ch = "B" THEN "b" ELSE ch
ToLower(str) == [i \in 1..Len(str) |-> LowerChar(str[i])]

\* path.extname: from the last dot of the name, when it is not its first
\* character; otherwise empty.
ExtName(name) ==
    LET dots == { i \in 1..Len(name) : name[i] = "." }
    IN  IF dots = {} THEN <<>>
        ELSE LET d == CHOOSE i \in dots : \A j \in dots : j <= i
             IN  IF d = 1 THEN <<>> ELSE SubSeq(name, d, Len(name))

\* The extension field of a file node.
Extension(name) ==
    LET ext == ToLower(ExtName(name))
    IN  IF StartsWith(ext, <<".">>) THEN Tail(ext) ELSE ext

\* if (!Array.isArray(listing)) ...: the items of the result, or none.
NormalizeListing(res) ==
    IF res.kind = "array" THEN res.list
    ELSE IF res.kind = "files" THEN res.files
    ELSE <<>>

\* item.path || item.name
ReportedPath(item) == IF item.path # <<>> THEN item.path ELSE item.name

\* let itemPath = item.path || item.name, joined to the parent path when
\* it does not start with it.
ItemPath(item, parentPath) ==
    LET raw == ReportedPath(item)
    IN  IF parentPath # <<>> /\ ~StartsWith(raw, parentPath)
        THEN PathJoin(parentPath, raw)
        ELSE raw

\* new PfdaNode(item.uid || item.id, item.name, itemPath, isDirectory,
\* extension) with setParent(parentNode); ser tells which call built it,
\* reported what the listing gave as the item's path.
MakeNode(item, parentPath, parentNode, ser) ==
    [id |-> IF item.uid # None THEN item.uid ELSE item.id,
     label |-> item.name,
     path |-> ItemPath(item, parentPath),
     isDirectory |-> item.type = "Folder",
     extension |-> IF item.type = "Folder" THEN NoExt ELSE Extension(item.name),
     parent |-> parentNode.id,
     from |-> ser,
     reported |-> ReportedPath(item)]

\* The cache keeps the new node only.
CacheSetOnly(cache, node) == (node.id :> node)

\* this.nodes.set(node.id, node)
CacheSet(cache, node) == (node.id :> node) @@ cache

\* _buildNodesFromListing: the nodes returned and the cache after the loop.
RECURSIVE BuildFrom(_, _, _, _, _, _)
BuildFrom(listing, i, parentPath, parentNode, ser, acc) ==
    IF i > Len(listing) THEN acc
    ELSE LET item == listing[i]
         IN  IF item.path = <<>> /\ item.name = <<>>
             THEN BuildFrom(listing, i + 1, parentPath, parentNode, ser, acc)
             ELSE LET node == MakeNode(item, parentPath, parentNode, ser)
                  IN  BuildFrom(listing, i + 1, parentPath, parentNode, ser,
                                [out |-> Append(acc.out, node),
                                 cache |-> CacheSet(acc.cache, node)])

BuildNodesFromListing(res, parentPath, parentNode, ser) ==
    BuildFrom(NormalizeListing(res), 1, parentPath, parentNode, ser,
              [out |-> <<>>, cache |-> nodes])

\* The -space-id qualifier of a provider call.
SpaceQualifier == IF activeSpaceId \in {Undef, "my-home"} THEN Omitted ELSE activeSpaceId

\* const args = ['ls', ...defaultParams, ('-folder-id', element.id)?,
\* ('-space-id', activeSpaceId)?]
LsArgs(element) ==
    [cmd |-> "ls", params |-> <<"-skipverify", "true">>,
     folderId |-> IF element = NoNode THEN None ELSE element.id,
     spaceId |-> SpaceQualifier]

\* The refresh call forgets to clear the cache.
KeptNodes == nodes

\* this.nodes.clear()
ClearedNodes == EmptyMap

\* The nodes the view may ask the children of: those it was last given and
\* those in the cache.
KnownNodes ==
    { nodes[i] : i \in DOMAIN nodes } \cup
    { answer.result[i] : i \in 1..Len(answer.result) }

NoAnswer ==
    [ser |-> 0, element |-> NoNode, args |-> LsArgs(NoNode), epoch |-> 0,
     ok |-> FALSE, result |-> <<>>]

\* refresh(spaceId)
Refresh(spaceId) ==
    /\ Len(spaceAt) < MaxRefresh
    /\ nodes' = ClearedNodes
    /\ activeSpaceId' = spaceId
    /\ fired' = fired + 1
    /\ spaceAt' = Append(spaceAt, spaceId)
    /\ UNCHANGED <<expVars, delVars, cliVars, upVars, dndVars, parentOf, reqs, nextSer, answer>>

\* getChildren(element) up to its await: root and directories issue ls.
GetChildren(element) ==
    /\ nextSer <= MaxReqs
    /\ element = NoNode \/ element.isDirectory
    /\ reqs' = reqs \cup { [ser |-> nextSer, element |-> element,
                            args |-> LsArgs(element), epoch |-> Len(spaceAt)] }
    /\ nextSer' = nextSer + 1
    /\ UNCHANGED <<expVars, delVars, cliVars, upVars, dndVars, parentOf, nodes, activeSpaceId, fired, spaceAt, answer>>

\* getChildren(element) of a file: return [].
GetChildrenOfFile(element) ==
    /\ nextSer <= MaxReqs
    /\ element # NoNode /\ ~element.isDirectory
    /\ answer' = [ser |-> nextSer, element |-> element, args |-> LsArgs(element),
                  epoch |-> Len(spaceAt), ok |-> TRUE, result |-> <<>>]
    /\ nextSer' = nextSer + 1
    /\ UNCHANGED <<expVars, delVars, cliVars, upVars, dndVars, parentOf, nodes, activeSpaceId, fired, spaceAt, reqs>>

\* The ls call of a getChildren call resolves:
\* return this._buildNodesFromListing(listing, element.path, element).
GetChildrenDone(r, kind, items) ==
    /\ r \in reqs
    /\ reqs' = reqs \ {r}
    /\ LET built == BuildNodesFromListing(LsResult(kind, items), r.element.path,
                                          r.element, r.ser)
       IN  /\ nodes' = built.cache
           /\ answer' = [ser |-> r.ser, element |-> r.element, args |-> r.args,
                         epoch |-> r.epoch, ok |-> TRUE, result |-> built.out]
    /\ UNCHANGED <<expVars, delVars, cliVars, upVars, dndVars, parentOf, activeSpaceId, fired, spaceAt, nextSer>>

\* path.dirname of a relative path: what precedes its last separator, or
\* "." when it has none.
Dirname(p) ==
    LET seps == { i \in 1..Len(p) : p[i] = "/" }
    IN  IF seps = {} THEN <<".">>
        ELSE SubSeq(p, 1, (CHOOSE i \in seps : \A j \in seps : j <= i) - 1)

\* _getNodeByPath: a cached node with this path, if any.
GetNodeByPath(nodePath) ==
    IF \E i \in DOMAIN nodes : nodes[i].path = nodePath
    THEN nodes[CHOOSE i \in DOMAIN nodes : nodes[i].path = nodePath]
    ELSE NoNode

\* What getParent(element) returns.
ParentFound(element) ==
    IF Dirname(element.path) = element.path THEN NoNode
    ELSE GetNodeByPath(Dirname(element.path))

\* getParent(element)
GetParent(element) ==
    /\ element # NoNode
    /\ parentOf' = [element |-> element, result |-> ParentFound(element)]
    /\ UNCHANGED <<expVars, delVars, cliVars, upVars, dndVars, nodes, activeSpaceId, fired, spaceAt, reqs, nextSer,
                   answer>>

\* The ls call of a getChildren call rejects, and so does getChildren.
GetChildrenFailed(r) ==
    /\ r \in reqs
    /\ reqs' = reqs \ {r}
    /\ answer' = [ser |-> r.ser, element |-> r.element, args |-> r.args,
                  epoch |-> r.epoch, ok |-> FALSE, result |-> <<>>]
    /\ UNCHANGED <<expVars, delVars, cliVars, upVars, dndVars, parentOf, nodes, activeSpaceId, fired, spaceAt, nextSer>>

\* pfdaStatusBarItem as the extension sets it up: '$(cloud) PFDA'.
StatusIdle == [icon |-> "cloud", label |-> "idle", processed |-> 0, total |-> 0,
               tooltip |-> 0]

\* The uploads followed.
UploadIds == {"u1", "u2"}

\* An upload not yet started.
NoUpload ==
    [pc |-> "idle", active |-> Undef, filePaths |-> <<>>, argv |-> <<>>,
     totalFiles |-> 0,
     processedCount |-> 0, hasProgress |-> FALSE, message |-> "none",
     percent |-> 0, increments |-> 0, result |-> "pending", error |-> "",
     warned |-> FALSE, chunks |-> 0, tail |-> <<>>, written |-> 0,
     code |-> 0, stderr |-> "", cancelled |-> FALSE]

\* No upload was started.
UpInit ==
    /\ pfdaStatusBarItem = StatusIdle
    /\ ups = [u \in UploadIds |-> NoUpload]

\* No drop was handled yet.
NoDrop ==
    [pc |-> "idle", target |-> [id |-> "", label |-> "PFDA", path |-> <<>>,
                                isDirectory |-> FALSE, parent |-> ""],
     internal |-> FALSE, uriList |-> FALSE, sourceNodes |-> <<>>, idx |-> 0,
     moves |-> <<>>, errors |-> <<>>, infos |-> 0, refreshed |-> <<>>,
     asked |-> 0, filePaths |-> <<>>, folderId |-> Undef, uploadCalls |-> 0,
     results |-> <<>>, response |-> "none"]

\* The controller after construction.
DndInit ==
    /\ drop = NoDrop
    /\ dndSpace = Undef

\* No callPfdaCli call was settled yet.
NoSettled ==
    [site |-> "none", event |-> "none", code |-> 0,
     stdout |-> "", isJson |-> FALSE, stderr |-> "", kind |-> "none",
     value |-> "", message |-> ""]

\* No command under way has asked for a confirmation.
NoConfirm == [site |-> "none", node |-> "", answer |-> "none"]

\* No command of FileOperations or FileOpener has ended yet.
NoOp ==
    [site |-> "none", calls |-> 0, failed |-> FALSE, returned |-> "undefined",
     errors |-> 0, infos |-> 0]

\* No explorer was constructed around the components.
ExpIdle == explorerSpace = Undef

\* FileOperations and FileOpener after construction, no process running.
CliInit ==
    /\ opsSpace = Undef
    /\ openerSpace = Undef
    /\ procs = {}
    /\ settled = NoSettled
    /\ opDone = NoOp
    /\ confirm = NoConfirm

ProvInit ==
    /\ nodes = EmptyMap
    /\ activeSpaceId = Undef
    /\ fired = 0
    /\ spaceAt = <<>>
    /\ reqs = {}
    /\ nextSer = 1
    /\ parentOf = [element |-> NoNode, result |-> NoNode]
    /\ answer = NoAnswer

\* No deletion is under way while the provider is looked at.
DelIdle ==
    /\ tree = <<RootRec>>
    /\ remote = {1}
    /\ remote0 = {1}
    /\ stack = <<>>
    /\ inflight = {}
    /\ token = FALSE
    /\ cancelled = FALSE
    /\ status = "idle"
    /\ prev = "none"
    /\ runs = 0
    /\ delSpace = Undef
    /\ faults = FALSE
    /\ trace = <<>>
    /\ sink = <<>>

InitProv == DelIdle /\ ProvInit /\ CliInit /\ UpInit /\ DndInit /\ ExpIdle

NextProv ==
    \/ \E spaceId \in Spaces : Refresh(spaceId)
    \/ \E element \in {NoNode} \cup KnownNodes : GetChildren(element)
    \/ \E element \in KnownNodes : GetChildrenOfFile(element)
    \/ \E r \in reqs, kind \in ListingKinds :
          \E items \in IF kind = "other" THEN {<<>>} ELSE RawListings :
              GetChildrenDone(r, kind, items)
    \/ \E r \in reqs : GetChildrenFailed(r)

SpecProv == InitProv /\ [][NextProv]_vars

\* The provider with a view that also asks for the parents of its nodes.
NextParent ==
    \/ NextProv
    \/ \E element \in KnownNodes : GetParent(element)

SpecParent == InitProv /\ [][NextParent]_vars

----------------------------------------------------------------------------
(* PfdaCli.callPfdaCli and the commands of FileOperations and FileOpener   *)
(* that go through it. An argument list is a sequence of strings.          *)

\* Array.prototype.includes
Includes(seq, x) == \E i \in 1..Len(seq) : seq[i] = x

\* if (!args.includes('-json')) { args.push('-json'); }
SpawnArgs(args) == IF Includes(args, "-json") THEN args ELSE Append(args, "-json")

\* if (activeSpaceId === 'my-home') {} else if (activeSpaceId)
\* { args.push('-space-id', activeSpaceId) } else {}
SpaceArgs(spaceId) ==
    IF spaceId = "my-home" THEN <<>>
    ELSE IF spaceId # Undef THEN <<"-space-id", spaceId>>
    ELSE <<>>

\* The nodes the commands are invoked on: a file, a folder, or none.
CliFile == [id |-> "file-1", isDirectory |-> FALSE]
CliFolder == [id |-> "folder-1", isDirectory |-> TRUE]
CliNone == [id |-> "", isDirectory |-> FALSE]

\* The names typed for a new directory, with their characters.
DirNames ==
    { [text |-> "d", chars |-> <<"d">>],
      [text |-> "d/e", chars |-> <<"d", "/", "e">>] }

\* What showInputBox resolves to: a name typed, the empty string, or
\* undefined when the prompt is dismissed.
EnteredNames ==
    DirNames \cup { [text |-> "", chars |-> <<>>], [text |-> Undef, chars |-> <<>>] }

\* Every answer of the prompt counts as a name.
NameGivenAlways(name) == TRUE

\* if (!directoryName) { return false; }
NameGiven(name) == name.text # "" /\ name.text # Undef

\* const args = ['download', node.id, '-output', downloadPath] ...
DownloadArgs(node, spaceId) ==
    <<"download", node.id, "-output", "/tmp/out">> \o SpaceArgs(spaceId)

\* const args = ['mkdir', directoryName, ('-folder-id', parentNode.id)?,
\* ('-p')?] ...
MkdirArgs(name, parentNode, spaceId) ==
    <<"mkdir", name.text>>
    \o (IF parentNode # CliNone /\ parentNode.isDirectory
        THEN <<"-folder-id", parentNode.id>> ELSE <<>>)
    \o (IF Includes(name.chars, "/") \/ Includes(name.chars, "\\")
        THEN <<"-p">> ELSE <<>>)
    \o SpaceArgs(spaceId)

\* const args = ['rm', node.id] ...
RmArgs(node, spaceId) == <<"rm", node.id>> \o SpaceArgs(spaceId)

\* const args = ['cat', node.id] ...
CatArgs(node, spaceId) == <<"cat", node.id>> \o SpaceArgs(spaceId)

\* const args = ['head', node.id] ...
HeadArgs(node, spaceId) == <<"head", node.id>> \o SpaceArgs(spaceId)

\* const args = ['ls', ...defaultParams, '-type', 'd'] ...
DirectoriesArgs(spaceId) ==
    <<"ls", "-skipverify", "true", "-type", "d">> \o SpaceArgs(spaceId)

\* FileOpener.openFile: const args = ['ls', node.id] ...
InfoArgs(node, spaceId) == <<"ls", node.id>> \o SpaceArgs(spaceId)

\* FileOpener.downloadAndOpenFile:
\* const args = ['download', node.id, '-output', localDir] ...
OpenDownloadArgs(node, spaceId) ==
    <<"download", node.id, "-output", "/tmp/pfda">> \o SpaceArgs(spaceId)

\* What a process may write to stdout, and whether JSON.parse accepts it.
Stdouts ==
    { [text |-> "[]", isJson |-> TRUE],
      [text |-> "", isJson |-> FALSE],
      [text |-> "Done!", isJson |-> FALSE] }

Stderrs == {"", "denied"}

ExitCodes == {0, 1}

\* The close handler takes whatever stdout holds for the result.
OnCloseLenient(code, out, stderr) ==
    IF code # 0
    THEN [kind |-> "rejected", value |-> "",
          message |-> IF stderr # "" THEN stderr
                      ELSE "pfda exited with code " \o ToString(code)]
    ELSE [kind |-> "resolved", value |-> out.text, message |-> ""]

\* proc.on('close', code => ...): how the promise settles.
OnClose(code, out, stderr) ==
    IF code # 0
    THEN [kind |-> "rejected", value |-> "",
          message |-> IF stderr # "" THEN stderr
                      ELSE "pfda exited with code " \o ToString(code)]
    ELSE IF out.isJson
         THEN [kind |-> "resolved", value |-> out.text, message |-> ""]
         ELSE [kind |-> "rejected", value |-> "",
               message |-> "Failed to parse pfda JSON output: " \o out.text]

\* callPfdaCli(args) up to the spawn, for a command of the given site under
\* the space its component holds. The calls share no state, and the
\* commands are followed one call at a time.
Call(site, args, spaceId) ==
    /\ procs = {}
    /\ confirm.site \in {"none", site}
    /\ procs' = procs \cup { [site |-> site, argv |-> SpawnArgs(args),
                              space |-> spaceId] }
    /\ UNCHANGED <<expVars, delVars, provVars, upVars, dndVars, opsSpace, openerSpace, settled,
                 opDone, confirm>>

\* FileOperations.setActiveSpaceId
OpsSetActiveSpaceId(spaceId) ==
    /\ opsSpace' = spaceId
    /\ UNCHANGED <<expVars, delVars, provVars, upVars, dndVars, openerSpace, procs, settled,
                 opDone, confirm>>

\* FileOpener.setActiveSpaceId
OpenerSetActiveSpaceId(spaceId) ==
    /\ openerSpace' = spaceId
    /\ UNCHANGED <<expVars, delVars, provVars, upVars, dndVars, opsSpace, procs, settled,
                 opDone, confirm>>

\* FileOperations.downloadFile of a file, up to its await.
DownloadFile(node) ==
    /\ ~node.isDirectory
    /\ Call("downloadFile", DownloadArgs(node, opsSpace), opsSpace)

\* FileOperations.createDirectory after the prompt, up to its await or, when
\* no name was given, to its return.
CreateDirectory(name, parentNode) ==
    IF NameGiven(name)
    THEN Call("createDirectory", MkdirArgs(name, parentNode, opsSpace), opsSpace)
    ELSE /\ procs = {}
         /\ opDone' = [NoOp EXCEPT !.site = "createDirectory", !.returned = "false"]
         /\ UNCHANGED <<expVars, delVars, provVars, upVars, dndVars, opsSpace, openerSpace,
                        procs, settled, confirm>>

\* What the modal warning of removeFile and removeDirectory resolves to:
\* its one button, or undefined when it is dismissed.
DeleteAnswers == {"Delete", Undef}

\* Every answer counts as a confirmation.
DeleteConfirmedAlways(confirmation) == TRUE

\* if (confirmation !== 'Delete') { return false; }
DeleteConfirmed(confirmation) == confirmation = "Delete"

\* The start of removeFile and removeDirectory, up to the answer to the
\* confirmation: a node of the wrong kind gets a warning, and an answer
\* other than 'Delete' ends the command; both return false.
AskDelete(site, rightKind, node, confirmation) ==
    /\ procs = {}
    /\ confirm = NoConfirm
    /\ IF rightKind /\ DeleteConfirmed(confirmation)
       THEN /\ confirm' = [site |-> site, node |-> node.id, answer |-> confirmation]
            /\ opDone' = opDone
       ELSE /\ confirm' = NoConfirm
            /\ opDone' = [NoOp EXCEPT !.site = site, !.returned = "false"]
    /\ UNCHANGED <<expVars, delVars, provVars, upVars, dndVars, opsSpace, openerSpace,
                   procs, settled>>

\* FileOperations.removeFile(node) up to the answer to its confirmation.
RemoveFileAsk(node, confirmation) ==
    AskDelete("removeFile", ~node.isDirectory, node, confirmation)

\* FileOperations.removeDirectory(node) up to the answer to its
\* confirmation.
RemoveDirectoryAsk(node, confirmation) ==
    AskDelete("removeDirectory", node.isDirectory, node, confirmation)

\* FileOperations.removeFile of a file, confirmed, up to its await.
RemoveFile(node) ==
    /\ ~node.isDirectory
    /\ confirm.site = "removeFile"
    /\ confirm.node = node.id
    /\ Call("removeFile", RmArgs(node, opsSpace), opsSpace)

\* FileOperations.catFile of a file, up to its await.
CatFile(node) ==
    /\ ~node.isDirectory
    /\ Call("catFile", CatArgs(node, opsSpace), opsSpace)

\* FileOperations.headFile of a file, up to its await.
HeadFile(node) ==
    /\ ~node.isDirectory
    /\ Call("headFile", HeadArgs(node, opsSpace), opsSpace)

\* FileOperations.getDirectories, up to its await.
GetDirectories == Call("getDirectories", DirectoriesArgs(opsSpace), opsSpace)

\* FileOpener.openFile of a file, up to the await of its ls call.
OpenFile(node) ==
    /\ ~node.isDirectory
    /\ Call("openFile", InfoArgs(node, openerSpace), openerSpace)

\* FileOpener.openFile after its ls call resolved: downloadAndOpenFile, up
\* to the await of its download call.
DownloadAndOpenFile(node) ==
    /\ ~node.isDirectory
    /\ settled.site = "openFile" /\ settled.kind = "resolved"
    /\ Call("downloadAndOpenFile", OpenDownloadArgs(node, openerSpace),
            openerSpace)

\* The try block of a command after its call resolved: the message shown
\* and the value returned. The file a download should produce is there or
\* not.
OnResolved(site) ==
    LET done == [NoOp EXCEPT !.site = site, !.calls = 1]
    IN  CASE site \in {"createDirectory", "removeFile"} ->
               { [done EXCEPT !.infos = 1, !.returned = "true"] }
          [] site \in {"downloadFile", "catFile", "headFile"} ->
               { [done EXCEPT !.infos = 1] }
          [] site = "getDirectories" -> { [done EXCEPT !.returned = "[]"] }
          [] site = "downloadAndOpenFile" -> { done, [done EXCEPT !.errors = 1] }
          [] OTHER -> { done }

\* The catch block reports nothing.
OnRejectedSilent(site) ==
    { [NoOp EXCEPT !.site = site, !.calls = 1, !.failed = TRUE] }

\* The catch block of a command after its call rejected: one
\* showErrorMessage, and the value returned.
OnRejected(site) ==
    LET done == [NoOp EXCEPT !.site = site, !.calls = 1, !.failed = TRUE,
                             !.errors = 1]
    IN  CASE site \in {"createDirectory", "removeFile"} ->
               { [done EXCEPT !.returned = "false"] }
          [] site = "getDirectories" -> { [done EXCEPT !.returned = "[]"] }
          [] OTHER -> { done }

\* The process of a call closes: the promise settles and the command that
\* awaited it goes on to its end.
ProcClose(p, code, out, stderr) ==
    /\ p \in procs
    /\ procs' = procs \ {p}
    /\ settled' = [site |-> p.site, event |-> "close",
                   code |-> code, stdout |-> out.text, isJson |-> out.isJson,
                   stderr |-> stderr] @@ OnClose(code, out, stderr)
    /\ opDone' \in IF OnClose(code, out, stderr).kind = "resolved"
                   THEN OnResolved(p.site) ELSE OnRejected(p.site)
    /\ confirm' = IF confirm.site = p.site THEN NoConfirm ELSE confirm
    /\ UNCHANGED <<expVars, delVars, provVars, upVars, dndVars, opsSpace, openerSpace>>

\* proc.on('error', err => reject(err)): the process could not be spawned.
ProcError(p) ==
    /\ p \in procs
    /\ procs' = procs \ {p}
    /\ settled' = [site |-> p.site, event |-> "error",
                   code |-> 0, stdout |-> "", isJson |-> FALSE, stderr |-> "",
                   kind |-> "rejected", value |-> "", message |-> "spawn failed"]
    /\ opDone' \in OnRejected(p.site)
    /\ confirm' = IF confirm.site = p.site THEN NoConfirm ELSE confirm
    /\ UNCHANGED <<expVars, delVars, provVars, upVars, dndVars, opsSpace, openerSpace>>

NextCli ==
    \/ \E spaceId \in Spaces : OpsSetActiveSpaceId(spaceId)
    \/ \E spaceId \in Spaces : OpenerSetActiveSpaceId(spaceId)
    \/ DownloadFile(CliFile)
    \/ \E name \in EnteredNames, parentNode \in {CliNone, CliFile, CliFolder} :
          CreateDirectory(name, parentNode)
    \/ \E node \in {CliFile, CliFolder}, confirmation \in DeleteAnswers :
          RemoveFileAsk(node, confirmation)
    \/ RemoveFile(CliFile)
    \/ CatFile(CliFile)
    \/ HeadFile(CliFile)
    \/ GetDirectories
    \/ OpenFile(CliFile)
    \/ DownloadAndOpenFile(CliFile)
    \/ \E p \in procs, code \in ExitCodes, out \in Stdouts, stderr \in Stderrs :
          ProcClose(p, code, out, stderr)
    \/ \E p \in procs : ProcError(p)

InitCli == DelIdle /\ ProvInit /\ CliInit /\ UpInit /\ DndInit /\ ExpIdle

SpecCli == InitCli /\ [][NextCli]_vars

----------------------------------------------------------------------------
(* PfdaCli.uploadFiles: counting the files, the upload-file process, its   *)
(* stdout chunks and the status bar item. A chunk is a sequence of         *)
(* one-character strings.                                                  *)

\* The local paths an upload may be given: files, a directory of a file
\* and a subdirectory with one file, an empty directory, a missing path.
LocalFs(p) ==
    CASE p \in {"f1", "f2", "f3", "d2/a", "d2/sub/b"} ->
            [kind |-> "file", entries |-> <<>>]
      [] p = "d2" -> [kind |-> "dir", entries |-> <<"d2/a", "d2/sub">>]
      [] p = "d2/sub" -> [kind |-> "dir", entries |-> <<"d2/sub/b">>]
      [] p = "e" -> [kind |-> "dir", entries |-> <<>>]
      [] OTHER -> [kind |-> "missing", entries |-> <<>>]

\* The filePaths arguments tried.
PathLists ==
    { <<>>, <<"e">>, <<"f1">>, <<"x">>, <<"d2">>, <<"e", "f1">>,
      <<"f1", "f2", "f3", "d2">> }

\* fs.promises.stat(filePath): isDirectory, false when stat throws.
StatIsDirectory(p) == LocalFs(p).kind = "dir"

\* countFilesInDirectory(dirPath)
RECURSIVE CountFilesInDirectory(_)
RECURSIVE CountEntries(_, _)
CountEntries(entries, i) ==
    IF i > Len(entries) THEN 0
    ELSE (IF LocalFs(entries[i]).kind = "dir"
          THEN CountFilesInDirectory(entries[i]) ELSE 1)
         + CountEntries(entries, i + 1)
CountFilesInDirectory(dirPath) == CountEntries(LocalFs(dirPath).entries, 1)

\* for (const file of fileStats) totalFiles += file.isDirectory ?
\* await countFilesInDirectory(file.path) : 1
RECURSIVE TotalFiles(_, _)
TotalFiles(filePaths, i) ==
    IF i > Len(filePaths) THEN 0
    ELSE (IF StatIsDirectory(filePaths[i])
          THEN CountFilesInDirectory(filePaths[i]) ELSE 1)
         + TotalFiles(filePaths, i + 1)

\* The upload goes on with no files.
NoFilesNever(totalFiles) == FALSE

\* if (totalFiles === 0)
NoFiles(totalFiles) == totalFiles = 0

\* The callers' spaceId argument:
\* this.activeSpaceId !== 'my-home' ? this.activeSpaceId : undefined
UploadSpace(active) == IF active # "my-home" THEN active ELSE Undef

\* The folderId arguments and the options tried.
FolderIds == {Undef, "folder-1"}
UploadOptions == { [threads |-> 0, chunksize |-> 0], [threads |-> 4, chunksize |-> 8] }

\* const args = ['upload-file', ...filePaths] and the qualifiers pushed.
UploadArgs(filePaths, spaceId, folderId, options) ==
    <<"upload-file">> \o filePaths
    \o (IF spaceId # Undef /\ spaceId # "my-home"
        THEN <<"-space-id", spaceId>> ELSE <<>>)
    \o (IF folderId # Undef THEN <<"-folder-id", folderId>> ELSE <<>>)
    \o (IF options.threads # 0
        THEN <<"-threads", ToString(options.threads)>> ELSE <<>>)
    \o (IF options.chunksize # 0
        THEN <<"-chunksize", ToString(options.chunksize)>> ELSE <<>>)

\* The text and the tooltip of the status bar item when an upload starts,
\* and its text after a file.
StatusUploading(bar, totalFiles) ==
    [icon |-> "cloud-upload", label |-> "Uploading", processed |-> 0,
     total |-> totalFiles, tooltip |-> totalFiles]
StatusProgress(bar, processedCount, totalFiles) ==
    [bar EXCEPT !.icon = "cloud-upload", !.label = "files",
                !.processed = processedCount, !.total = totalFiles]

\* The close handler leaves the status bar item as it is.
StatusOnCloseKept(bar) == bar

\* The close handler: pfdaStatusBarItem.text = '$(cloud) PFDA', and tooltip.
StatusOnClose(bar) == StatusIdle

\* The markers looked for in a line, and the line separator.
UploadedMarker == <<"U", "p", "l", "o", "a", "d", "e", "d", ":">>
DoneMarker == <<"D", "o", "n", "e", "!">>
NL == "\n"
CR == "\r"

\* String.prototype.includes on character sequences.
Contains(line, sub) ==
    \E i \in 1..(Len(line) - Len(sub) + 1) : SubSeq(line, i, i + Len(sub) - 1) = sub

\* output.split(/\r?\n/): the pieces between the separators.
RECURSIVE SplitLines(_, _, _)
SplitLines(output, i, piece) ==
    IF i > Len(output) THEN <<piece>>
    ELSE IF output[i] = NL
         THEN <<piece>> \o SplitLines(output, i + 1, <<>>)
         ELSE IF output[i] = CR /\ i < Len(output) /\ output[i + 1] = NL
              THEN <<piece>> \o SplitLines(output, i + 2, <<>>)
              ELSE SplitLines(output, i + 1, Append(piece, output[i]))

\* The chunks a data event may deliver: a marker line, two marker lines,
\* a marker line ending in CR LF, the two parts of a marker line cut inside
\* the marker, the final line, another line.
Chunks ==
    { UploadedMarker \o <<" ", "f", NL>>,
      UploadedMarker \o <<" ", "f", NL>> \o UploadedMarker \o <<" ", "g", NL>>,
      UploadedMarker \o <<" ", "h", CR, NL>>,
      SubSeq(UploadedMarker, 1, 4),
      SubSeq(UploadedMarker, 5, 9) \o <<" ", "f", NL>>,
      DoneMarker \o <<NL>>,
      <<".", NL>> }

\* Math.round((processedCount / totalFiles) * 100)
Percent(processedCount, totalFiles) ==
    (200 * processedCount + totalFiles) \div (2 * totalFiles)

\* The forEach over the lines of a chunk: the counter, the progress reports
\* (their last message and percentage, and the sum of their increments in
\* units of 1/totalFiles) and the status bar item.
RECURSIVE OnLines(_, _, _)
OnLines(lines, i, st) ==
    IF i > Len(lines) THEN st
    ELSE LET uploaded == Contains(lines[i], UploadedMarker)
             done == Contains(lines[i], DoneMarker)
             count == IF uploaded THEN st.processedCount + 1 ELSE st.processedCount
             s1 == IF uploaded
                   THEN [st EXCEPT
                           !.processedCount = count,
                           !.message = IF st.hasProgress THEN "Uploaded" ELSE @,
                           !.percent = IF st.hasProgress
                                       THEN Percent(count, st.totalFiles) ELSE @,
                           !.increments = IF st.hasProgress THEN @ + 100 ELSE @,
                           !.bar = StatusProgress(@, count, st.totalFiles)]
                   ELSE st
             s2 == IF done /\ s1.hasProgress
                   THEN [s1 EXCEPT !.message = "Upload complete",
                                   !.increments = @ + 100 * s1.totalFiles]
                   ELSE s1
         IN  OnLines(lines, i + 1, s2)

\* The marker lines among the lines of the stream completed by a chunk.
RECURSIVE MarkerLines(_, _)
MarkerLines(lines, i) ==
    IF i >= Len(lines) THEN 0
    ELSE (IF Contains(lines[i], UploadedMarker) THEN 1 ELSE 0)
         + MarkerLines(lines, i + 1)

\* uploadFiles(filePaths, spaceId, folderId, options) as its callers invoke
\* it under their active space, up to the spawn of the process or to the
\* early return.
UploadFiles(u, filePaths, active, folderId, options, showProgress) ==
    /\ ups[u].pc = "idle"
    /\ LET totalFiles == TotalFiles(filePaths, 1)
       IN  IF NoFiles(totalFiles)
           THEN /\ ups' = [ups EXCEPT ![u] =
                             [@ EXCEPT !.pc = "returned", !.active = active,
                                       !.filePaths = filePaths,
                                       !.warned = TRUE, !.result = "resolved"]]
                /\ UNCHANGED pfdaStatusBarItem
           ELSE /\ ups' = [ups EXCEPT ![u] =
                             [@ EXCEPT !.pc = "running", !.active = active,
                                       !.filePaths = filePaths,
                                       !.argv = UploadArgs(filePaths, UploadSpace(active),
                                                           folderId, options),
                                       !.totalFiles = totalFiles,
                                       !.hasProgress = showProgress]]
                /\ pfdaStatusBarItem' = StatusUploading(pfdaStatusBarItem, totalFiles)
    /\ UNCHANGED <<expVars, delVars, provVars, cliVars, dndVars>>

\* proc.stdout.on('data', ...)
UpData(u, chunk) ==
    /\ ups[u].pc = "running"
    /\ ups[u].chunks < MaxChunks
    /\ LET st == OnLines(SplitLines(chunk, 1, <<>>), 1,
                         [processedCount |-> ups[u].processedCount,
                          totalFiles |-> ups[u].totalFiles,
                          hasProgress |-> ups[u].hasProgress,
                          message |-> ups[u].message,
                          percent |-> ups[u].percent,
                          increments |-> ups[u].increments,
                          bar |-> pfdaStatusBarItem])
           stream == SplitLines(ups[u].tail \o chunk, 1, <<>>)
       IN  /\ ups' = [ups EXCEPT ![u] =
                        [@ EXCEPT !.processedCount = st.processedCount,
                                  !.message = st.message,
                                  !.percent = st.percent,
                                  !.increments = st.increments,
                                  !.chunks = @ + 1,
                                  !.tail = stream[Len(stream)],
                                  !.written = @ + MarkerLines(stream, 1)]]
           /\ pfdaStatusBarItem' = st.bar
    /\ UNCHANGED <<expVars, delVars, provVars, cliVars, dndVars>>

\* proc.on('error', err => reject(err)): the process could not be spawned;
\* its close event follows.
UpError(u) ==
    /\ ups[u].pc = "running"
    /\ ups[u].chunks = 0
    /\ ups' = [ups EXCEPT ![u] =
                 [@ EXCEPT !.pc = "failed", !.result = "rejected",
                           !.error = "spawn failed"]]
    /\ UNCHANGED <<expVars, delVars, provVars, cliVars, dndVars, pfdaStatusBarItem>>

\* The code of the close event after a spawn error.
SpawnFailedCode == -2

\* The close handler resolves whatever the exit code.
UploadOutcomeResolved(code, stderr) == [result |-> "resolved", error |-> ""]

\* if (code !== 0) reject(new Error(stderr || `pfda upload exited with code
\* ${code}`)) else resolve()
UploadOutcome(code, stderr) ==
    IF code # 0
    THEN [result |-> "rejected",
          error |-> IF stderr # "" THEN stderr
                    ELSE "pfda upload exited with code " \o ToString(code)]
    ELSE [result |-> "resolved", error |-> ""]

\* proc.on('close', code => ...); a promise already rejected stays so.
UpClose(u, code, stderr) ==
    /\ \/ ups[u].pc = "running" /\ code \in ExitCodes
       \/ ups[u].pc = "failed" /\ code = SpawnFailedCode
    /\ pfdaStatusBarItem' = StatusOnClose(pfdaStatusBarItem)
    /\ ups' = [ups EXCEPT ![u] =
                 IF @.result # "pending"
                 THEN [@ EXCEPT !.pc = "closed", !.code = code, !.stderr = stderr]
                 ELSE [@ EXCEPT !.pc = "closed", !.code = code, !.stderr = stderr,
                                !.result = UploadOutcome(code, stderr).result,
                                !.error = UploadOutcome(code, stderr).error]]
    /\ UNCHANGED <<expVars, delVars, provVars, cliVars, dndVars>>

\* One upload, with every input.
NextUp ==
    \/ \E filePaths \in PathLists, active \in Spaces, folderId \in FolderIds,
          options \in UploadOptions, showProgress \in BOOLEAN :
          UploadFiles("u1", filePaths, active, folderId, options, showProgress)
    \/ \E chunk \in Chunks : UpData("u1", chunk)
    \/ UpError("u1")
    \/ \E code \in ExitCodes \cup {SpawnFailedCode}, stderr \in Stderrs :
          UpClose("u1", code, stderr)

InitUp == DelIdle /\ ProvInit /\ CliInit /\ UpInit /\ DndInit /\ ExpIdle

SpecUp == InitUp /\ [][NextUp]_vars

\* Every process spawned closes.
FairSpecUp == SpecUp /\ WF_vars(\E code \in ExitCodes \cup {SpawnFailedCode},
                                   stderr \in Stderrs : UpClose("u1", code, stderr))

\* The user cancels the progress notification of an upload: the token that
\* withProgress hands to _uploadFilesInternal (_token) is cancelled.
UpCancel(u) ==
    /\ ups[u].pc = "running"
    /\ ups[u].hasProgress
    /\ ~ups[u].cancelled
    /\ ups' = [ups EXCEPT ![u] = [@ EXCEPT !.cancelled = TRUE]]
    /\ UNCHANGED <<expVars, delVars, provVars, cliVars, dndVars, pfdaStatusBarItem>>

\* One upload of one file or of two, which the user may cancel.
NextUpCancel ==
    \/ \E filePaths \in {<<"f1">>, <<"f1", "f2">>}, showProgress \in BOOLEAN :
          UploadFiles("u1", filePaths, Undef, Undef,
                      [threads |-> 0, chunksize |-> 0], showProgress)
    \/ \E chunk \in Chunks : UpData("u1", chunk)
    \/ UpCancel("u1")
    \/ UpError("u1")
    \/ \E code \in ExitCodes \cup {SpawnFailedCode}, stderr \in Stderrs :
          UpClose("u1", code, stderr)

SpecUpCancel == InitUp /\ [][NextUpCancel]_vars

\* Two uploads side by side, of one file or of two.
NextUploads ==
    \/ \E u \in UploadIds, filePaths \in {<<"f1">>, <<"f1", "f2">>} :
          UploadFiles(u, filePaths, Undef, Undef,
                      [threads |-> 0, chunksize |-> 0], TRUE)
    \/ \E u \in UploadIds :
          UpData(u, UploadedMarker \o <<" ", "f", NL>>)
    \/ \E u \in UploadIds : UpError(u)
    \/ \E u \in UploadIds, code \in ExitCodes \cup {SpawnFailedCode} :
          UpClose(u, code, "")

SpecUploads == InitUp /\ [][NextUploads]_vars

----------------------------------------------------------------------------
(* PfdaDragAndDropController: validateDrop and handleDrop. The move        *)
(* commands issued, the messages shown, the confirmation asked and the     *)
(* calls of the refresh callback given to the constructor are recorded.    *)

\* The targets of a drop: none (the root), a directory, a file in a
\* directory, a file without a parent.
DropRoot == [id |-> "", label |-> "PFDA", path |-> <<>>, isDirectory |-> FALSE,
             parent |-> ""]
DropDir == [id |-> "folder-1", label |-> "d", path |-> <<"d">>,
            isDirectory |-> TRUE, parent |-> ""]
DropFileIn == [id |-> "file-9", label |-> "x", path |-> <<"d", "/", "x">>,
               isDirectory |-> FALSE, parent |-> "folder-1"]
DropFileTop == [id |-> "file-8", label |-> "y", path |-> <<"y">>,
                isDirectory |-> FALSE, parent |-> ""]
DropTargets == {DropRoot, DropDir, DropFileIn, DropFileTop}

\* The payloads dropped: which of the two items they hold, the paths of the
\* nodes of the internal item, and the lines of the URI list (a file URI
\* with or without blanks around it, or a blank line).
Payloads ==
    { [internal |-> i, sourceNodes |-> s, uriList |-> u, lines |-> l] :
        i \in BOOLEAN, u \in BOOLEAN,
        s \in { <<>>, << <<"g">> >>, << <<"a", "/", "f">>, <<"g">> >> },
        l \in { <<>>, <<[uri |-> "", padded |-> TRUE]>>,
                <<[uri |-> "file:///f1", padded |-> FALSE]>>,
                <<[uri |-> "file:///f2", padded |-> TRUE],
                  [uri |-> "", padded |-> TRUE],
                  [uri |-> "file:///f1", padded |-> FALSE]>> } }

\* validateDrop(target): return !target || target.isDirectory
ValidateDrop(target) == target = DropRoot \/ target.isDirectory

\* path.basename of a path without a trailing separator.
RECURSIVE Basename(_)
Basename(p) ==
    IF p = <<>> \/ p[Len(p)] = "/" THEN <<>>
    ELSE Append(Basename(SubSeq(p, 1, Len(p) - 1)), p[Len(p)])

\* if (target && target.isDirectory)
MovesOnto(target) == target # DropRoot /\ target.isDirectory

\* const destPath = path.join(target.path, path.basename(node.path))
DestPath(target, nodePath) == PathJoin(target.path, Basename(nodePath))

\* uri.fsPath of a file URI.
FsPath(uri) ==
    CASE uri = "file:///f1" -> "f1"
      [] uri = "file:///f2" -> "f2"
      [] OTHER -> "x"

\* uriList.split('\n').map(trim).filter(uri => uri.length > 0)
\*        .map(parse) and uris.map(uri => uri.fsPath)
RECURSIVE FilePathsOf(_, _)
FilePathsOf(lines, i) ==
    IF i > Len(lines) THEN <<>>
    ELSE (IF lines[i].uri # "" THEN <<FsPath(lines[i].uri)>> ELSE <<>>)
         \o FilePathsOf(lines, i + 1)

\* The folder is the target's own id whatever the target is.
TargetFolderIdOwn(target) == IF target = DropRoot THEN Undef ELSE target.id

\* let targetFolderId; if (target) { if (target.isDirectory) ... else if
\* (target.parent) ... }
TargetFolderId(target) ==
    IF target = DropRoot THEN Undef
    ELSE IF target.isDirectory THEN target.id
    ELSE IF target.parent # "" THEN target.parent
    ELSE Undef

\* The responses to the confirmation: the two buttons, and dismissal.
Responses == {"Upload", "Cancel", Undef}

\* The upload starts whatever the response.
ConfirmedAlways(response) == TRUE

\* if (response !== 'Upload') { return; }
Confirmed(response) == response = "Upload"

\* The loop stops at the end of the sources only.
AfterMoveStop(d, ok) ==
    [d EXCEPT !.errors = IF ok THEN @ ELSE Append(@, "Failed to move"),
              !.idx = IF ok THEN @ + 1 ELSE Len(d.sourceNodes) + 1]

\* catch (err) { showErrorMessage(`Failed to move ...`) } and the next
\* iteration.
AfterMove(d, ok) ==
    [d EXCEPT !.errors = IF ok THEN @ ELSE Append(@, "Failed to move"),
              !.idx = @ + 1]

\* The for loop over sourceNodes from d.idx up to its next await, and the
\* refresh callback and return after it.
RECURSIVE MoveLoop(_)
MoveLoop(d) ==
    IF d.idx > Len(d.sourceNodes)
    THEN [d EXCEPT !.pc = "done", !.refreshed = Append(@, dndSpace)]
    ELSE IF MovesOnto(d.target)
         THEN [d EXCEPT !.pc = "mv",
                        !.moves = Append(@, [from |-> d.sourceNodes[d.idx],
                                             to |-> DestPath(d.target,
                                                             d.sourceNodes[d.idx])])]
         ELSE MoveLoop([d EXCEPT !.idx = @ + 1])

\* The URI list is looked at first.
RouteUriFirst(payload) ==
    IF payload.uriList THEN "external"
    ELSE IF payload.internal THEN "internal" ELSE "none"

\* if (internalTransferItem) { ... return; } if (uriListTransferItem) ...
Route(payload) ==
    IF payload.internal THEN "internal"
    ELSE IF payload.uriList THEN "external" ELSE "none"

\* The body of handleDrop(target, sources) up to its first await or to its
\* return.
Dropped(target, payload) ==
    LET d == [drop EXCEPT !.target = target, !.internal = payload.internal,
                          !.uriList = payload.uriList]
    IN  IF Route(payload) = "internal"
        THEN MoveLoop([d EXCEPT !.sourceNodes = payload.sourceNodes, !.idx = 1])
        ELSE IF Route(payload) = "external"
             THEN LET filePaths == FilePathsOf(payload.lines, 1)
                  IN  IF Len(filePaths) = 0
                      THEN [d EXCEPT !.pc = "done"]
                      ELSE [d EXCEPT !.pc = "confirm", !.asked = @ + 1,
                                     !.filePaths = filePaths,
                                     !.folderId = TargetFolderId(target)]
             ELSE [d EXCEPT !.pc = "done"]

\* handleDrop(target, sources) up to its first await or to its return.
HandleDrop(target, payload) ==
    /\ drop.pc = "idle"
    /\ drop' = Dropped(target, payload)
    /\ UNCHANGED <<expVars, delVars, provVars, cliVars, upVars, dndSpace>>

\* The loop of handleDrop after the mv command it awaited settled.
AfterDropMove(ok) ==
    MoveLoop([AfterMove(drop, ok) EXCEPT !.results = Append(@, ok)])

\* The mv command awaited settles.
DropMoveDone(ok) ==
    /\ drop.pc = "mv"
    /\ drop' = AfterDropMove(ok)
    /\ UNCHANGED <<expVars, delVars, provVars, cliVars, upVars, dndSpace>>

\* The confirmation is answered; on 'Upload', uploadFiles is called.
DropRespond(response) ==
    /\ drop.pc = "confirm"
    /\ drop' = IF Confirmed(response)
               THEN [drop EXCEPT !.pc = "upload", !.response = response,
                                 !.uploadCalls = @ + 1]
               ELSE [drop EXCEPT !.pc = "done", !.response = response]
    /\ UNCHANGED <<expVars, delVars, provVars, cliVars, upVars, dndSpace>>

\* await this.pfdaCli.uploadFiles(filePaths, spaceId, targetFolderId): the
\* upload called starts.
DropUploadStart ==
    /\ drop.pc = "upload"
    /\ UploadFiles("u1", drop.filePaths, dndSpace, drop.folderId,
                   [threads |-> 0, chunksize |-> 0], TRUE)

\* handleDrop after the upload it awaited settled: the success message and
\* the refresh callback, or the error message of the catch.
AfterDropUpload(result) ==
    IF result = "resolved"
    THEN [drop EXCEPT !.pc = "done", !.infos = @ + 1,
                      !.refreshed = Append(@, dndSpace)]
    ELSE [drop EXCEPT !.pc = "done", !.errors = Append(@, "Upload failed")]

\* The upload awaited settles.
DropUploadDone ==
    /\ drop.pc = "upload"
    /\ ups["u1"].result # "pending"
    /\ drop' = AfterDropUpload(ups["u1"].result)
    /\ UNCHANGED <<expVars, delVars, provVars, cliVars, upVars, dndSpace>>

\* setActiveSpaceId(spaceId)
DndSetActiveSpaceId(spaceId) ==
    /\ drop.pc = "idle"
    /\ dndSpace' = spaceId
    /\ UNCHANGED <<expVars, delVars, provVars, cliVars, upVars, drop>>

\* One drop, and the upload it may start.
NextDrop ==
    \/ \E spaceId \in Spaces : DndSetActiveSpaceId(spaceId)
    \/ \E target \in DropTargets, payload \in Payloads : HandleDrop(target, payload)
    \/ \E ok \in BOOLEAN : DropMoveDone(ok)
    \/ \E response \in Responses : DropRespond(response)
    \/ DropUploadStart
    \/ UpData("u1", UploadedMarker \o <<" ", "f", NL>>)
    \/ UpError("u1")
    \/ \E code \in ExitCodes \cup {SpawnFailedCode} : UpClose("u1", code, "")
    \/ DropUploadDone

InitDrop == DelIdle /\ ProvInit /\ CliInit /\ UpInit /\ DndInit /\ ExpIdle

SpecDrop == InitDrop /\ [][NextDrop]_vars

----------------------------------------------------------------------------
(* PfdaFileExplorer: refresh, and the drop handler with the refresh        *)
(* callback the explorer gives to the controller.                          *)

\* this.activeSpaceId after the branches of refresh(spaceId): the space
\* given, 'my-home' when none was given and none is set, the space set
\* otherwise.
NextSpace(spaceId, active) ==
    IF spaceId # Undef THEN spaceId
    ELSE IF active = Undef THEN "my-home"
    ELSE active

\* The activeSpaceId of a component after the branches of refresh(spaceId):
\* its setter is called in the first two, and not in the third.
ServiceSpace(spaceId, active, held) ==
    IF spaceId # Undef THEN spaceId
    ELSE IF active = Undef THEN "my-home"
    ELSE held

\* The provider is refreshed with the argument of the call.
RefreshArgGiven(spaceId, active) == spaceId

\* this.treeDataProvider.refresh(this.activeSpaceId)
RefreshArg(spaceId, active) == NextSpace(spaceId, active)

\* The body of PfdaFileExplorer.refresh(spaceId), with the refresh of the
\* provider it ends with.
RefreshAll(spaceId) ==
    /\ Len(spaceAt) <= MaxRefresh + 1
    /\ explorerSpace' = NextSpace(spaceId, explorerSpace)
    /\ dndSpace' = ServiceSpace(spaceId, explorerSpace, dndSpace)
    /\ opsSpace' = ServiceSpace(spaceId, explorerSpace, opsSpace)
    /\ openerSpace' = ServiceSpace(spaceId, explorerSpace, openerSpace)
    /\ nodes' = ClearedNodes
    /\ activeSpaceId' = RefreshArg(spaceId, explorerSpace)
    /\ fired' = fired + 1
    /\ spaceAt' = Append(spaceAt, RefreshArg(spaceId, explorerSpace))

\* PfdaFileExplorer.refresh(spaceId), as the command pfdaFileExplorer.refresh
\* calls it with or without a space.
ExplorerRefresh(spaceId) ==
    /\ RefreshAll(spaceId)
    /\ UNCHANGED <<delVars, upVars, drop, procs, settled, opDone, confirm, parentOf,
                   reqs, nextSer, answer>>

\* A step of handleDrop that leaves the handler as d: when it has called
\* the refresh callback, (spaceId) => this.refresh(spaceId), the refresh
\* runs within it.
ExplorerDropStep(d) ==
    /\ drop' = d
    /\ IF Len(d.refreshed) > Len(drop.refreshed)
       THEN RefreshAll(d.refreshed[Len(d.refreshed)])
       ELSE UNCHANGED <<explorerSpace, dndSpace, opsSpace, openerSpace, nodes,
                        activeSpaceId, fired, spaceAt>>
    /\ UNCHANGED <<delVars, upVars, procs, settled, opDone, confirm, parentOf, reqs,
                   nextSer, answer>>

\* PfdaFileExplorer.handleDrop: the handler of the controller, up to its
\* first await or to its return.
ExplorerHandleDrop(target, payload) ==
    /\ drop.pc = "idle"
    /\ ExplorerDropStep(Dropped(target, payload))

\* The mv command the handler awaited settles.
ExplorerMoveDone(ok) ==
    /\ drop.pc = "mv"
    /\ ExplorerDropStep(AfterDropMove(ok))

\* The upload the handler awaited settles.
ExplorerUploadDone ==
    /\ drop.pc = "upload"
    /\ ups["u1"].result # "pending"
    /\ ExplorerDropStep(AfterDropUpload(ups["u1"].result))

\* The explorer after its constructor: the components constructed and the
\* refresh() that ends it.
ExpInit ==
    /\ explorerSpace = NextSpace(Undef, Undef)
    /\ dndSpace = ServiceSpace(Undef, Undef, Undef)
    /\ opsSpace = ServiceSpace(Undef, Undef, Undef)
    /\ openerSpace = ServiceSpace(Undef, Undef, Undef)
    /\ nodes = ClearedNodes
    /\ activeSpaceId = RefreshArg(Undef, Undef)
    /\ fired = 1
    /\ spaceAt = <<RefreshArg(Undef, Undef)>>
    /\ parentOf = [element |-> NoNode, result |-> NoNode]
    /\ reqs = {}
    /\ nextSer = 1
    /\ answer = NoAnswer
    /\ procs = {}
    /\ settled = NoSettled
    /\ opDone = NoOp
    /\ confirm = NoConfirm
    /\ drop = NoDrop

\* Refreshes, with and without a space, around one drop and its upload.
NextExplorer ==
    \/ \E spaceId \in Spaces : ExplorerRefresh(spaceId)
    \/ \E target \in DropTargets, payload \in Payloads :
          ExplorerHandleDrop(target, payload)
    \/ \E ok \in BOOLEAN : ExplorerMoveDone(ok)
    \/ \E response \in Responses : DropRespond(response)
    \/ DropUploadStart
    \/ UpData("u1", UploadedMarker \o <<" ", "f", NL>>)
    \/ UpError("u1")
    \/ \E code \in ExitCodes \cup {SpawnFailedCode} : UpClose("u1", code, "")
    \/ ExplorerUploadDone

InitExplorer == DelIdle /\ UpInit /\ ExpInit

SpecExplorer == InitExplorer /\ [][NextExplorer]_vars

NextDel ==
    \/ \E showProgress \in BOOLEAN : DelStart(showProgress, Undef)
    \/ Cancel
    \/ \E c \in inflight, ok \in BOOLEAN, kind \in RespKinds : DelLsDone(c, ok, kind)
    \/ DelCancelReturn
    \/ DelRecurse
    \/ DelIssueRm
    \/ \E c \in inflight, ok \in BOOLEAN : DelRmDone(c, ok)
    \/ DelIssueAlt
    \/ DelNoAlt
    \/ \E c \in inflight, ok \in BOOLEAN : DelAltDone(c, ok)
    \/ DelIssueRmdir
    \/ \E c \in inflight, ok \in BOOLEAN : DelRmdirDone(c, ok)
    \/ DelPropagate

InitDel == DelInit /\ ProvInit /\ CliInit /\ UpInit /\ DndInit /\ ExpIdle

SpecDel == InitDel /\ [][NextDel]_vars

\* The steps the event loop and the external executable take on their own:
\* every enabled continuation runs, and every spawned process exits.
EngineStep ==
    \/ \E c \in inflight, ok \in BOOLEAN, kind \in RespKinds : DelLsDone(c, ok, kind)
    \/ DelCancelReturn
    \/ DelRecurse
    \/ DelIssueRm
    \/ \E c \in inflight, ok \in BOOLEAN : DelRmDone(c, ok)
    \/ DelIssueAlt
    \/ DelNoAlt
    \/ \E c \in inflight, ok \in BOOLEAN : DelAltDone(c, ok)
    \/ DelIssueRmdir
    \/ \E c \in inflight, ok \in BOOLEAN : DelRmdirDone(c, ok)
    \/ DelPropagate

FairSpecDel == SpecDel /\ WF_vars(EngineStep)

----------------------------------------------------------------------------
(* The invocations of the external executable by every component, each     *)
(* component followed while the others rest.                               *)

\* The qualifier is pushed whatever the space.
DelSpaceArgsAlways(spaceId) == <<"-space-id", spaceId>>

\* if (spaceId && spaceId !== 'my-home') { args.push('-space-id', spaceId) }
DelSpaceArgs(spaceId) ==
    IF spaceId # Undef /\ spaceId # "my-home" THEN <<"-space-id", spaceId>> ELSE <<>>

\* String(itemId)
IdString(ident) == ident[1] \o "-" \o ToString(ident[2])

\* lsArgs, rmArgs, altRmArgs and simpleRmdirArgs of the deletion.
DelArgs(c, spaceId) ==
    (CASE c.op = "ls" -> <<"ls", "-folder-id", IdString(c.arg), "-json">>
       [] c.op = "rm" -> <<"rm", IdString(c.arg)>>
       [] OTHER -> <<"rmdir", IdString(c.arg)>>)
    \o DelSpaceArgs(spaceId)

\* The node of the directory the deletion starts from.
DelNode == [id |-> IdString(DirId(1)), isDirectory |-> TRUE]

\* FileOperations.removeDirectory of a directory, confirmed:
\* deleteRemoteDirectory(node.id, { spaceId: this.activeSpaceId !==
\* 'my-home' ? this.activeSpaceId : undefined, showProgress: true })
RemoveDirectory ==
    /\ confirm.site = "removeDirectory"
    /\ confirm.node = DelNode.id
    /\ DelStart(TRUE, UploadSpace(opsSpace))

\* showInformationMessage(`Directory ... deleted successfully.`) and return
\* true; catch (err) { console.error(...); return true; }
AfterDeletion(st) ==
    IF st = "resolved"
    THEN [NoOp EXCEPT !.site = "removeDirectory", !.calls = 1, !.infos = 1,
                      !.returned = "true"]
    ELSE [NoOp EXCEPT !.site = "removeDirectory", !.calls = 1, !.failed = TRUE,
                      !.returned = "true"]

\* FileOperations.removeDirectory after the deletion it awaited settled.
RemoveDirectoryDone ==
    /\ status \in {"resolved", "rejected"}
    /\ confirm.site = "removeDirectory"
    /\ opDone' = AfterDeletion(status)
    /\ confirm' = NoConfirm
    /\ UNCHANGED <<expVars, delVars, provVars, upVars, dndVars, opsSpace, openerSpace, procs,
                   settled>>

\* FileOperations.uploadFile after the uploadFiles call it awaited settled:
\* the success message, or the error message of the catch.
UploadFileDone(u) ==
    /\ ups[u].result # "pending"
    /\ opDone.site # "uploadFile"
    /\ opDone' = IF ups[u].result = "resolved"
                 THEN [NoOp EXCEPT !.site = "uploadFile", !.calls = 1, !.infos = 1]
                 ELSE [NoOp EXCEPT !.site = "uploadFile", !.calls = 1,
                                   !.failed = TRUE, !.errors = 1]
    /\ UNCHANGED <<expVars, delVars, provVars, upVars, dndVars, opsSpace, openerSpace, procs,
                   settled, confirm>>

\* One directory is removed under the space set before; the commands, the
\* listings of at most one item and one upload of a file run on their own.
NextCalls ==
    \/ /\ ProvInit /\ UpInit
       /\ procs = {} /\ settled = NoSettled /\ openerSpace = Undef
       /\ opDone.site \in {"none", "removeDirectory"}
       /\ confirm.site \in {"none", "removeDirectory"}
       /\ \/ status = "idle" /\ \E spaceId \in Spaces : OpsSetActiveSpaceId(spaceId)
          \/ /\ status = "idle"
             /\ \E node \in {DelNode, CliFile}, confirmation \in DeleteAnswers :
                   RemoveDirectoryAsk(node, confirmation)
          \/ runs = 0 /\ RemoveDirectory
          \/ Cancel
          \/ EngineStep
          \/ RemoveDirectoryDone
    \/ DelIdle /\ ProvInit /\ UpInit /\ NextCli
    \/ /\ DelIdle /\ CliInit /\ UpInit
       /\ \/ \E spaceId \in Spaces : Refresh(spaceId)
          \/ \E element \in {NoNode} \cup KnownNodes : GetChildren(element)
          \/ \E r \in reqs, items \in {l \in RawListings : Len(l) <= 1} :
                GetChildrenDone(r, "array", items)
          \/ \E r \in reqs : GetChildrenFailed(r)
    \/ /\ DelIdle /\ ProvInit
       /\ opsSpace = Undef /\ openerSpace = Undef
       /\ procs = {} /\ settled = NoSettled /\ confirm = NoConfirm
       /\ opDone.site \in {"none", "uploadFile"}
       /\ \/ \E filePaths \in {<<"f1">>, <<"e">>}, active \in Spaces,
                folderId \in FolderIds, options \in UploadOptions :
                UploadFiles("u1", filePaths, active, folderId, options, TRUE)
          \/ UpData("u1", UploadedMarker \o <<" ", "f", NL>>)
          \/ UpError("u1")
          \/ \E code \in ExitCodes \cup {SpawnFailedCode}, stderr \in Stderrs :
                UpClose("u1", code, stderr)
          \/ UploadFileDone("u1")

InitCalls == DelInit /\ ProvInit /\ CliInit /\ UpInit /\ DndInit /\ ExpIdle

SpecCalls == InitCalls /\ [][NextCalls]_vars

\* One directory is removed through the explorer while the space selector
\* switches the space before the command and once during the deletion.
NextSwitch ==
    \/ /\ \/ status = "idle" /\ confirm = NoConfirm
          \/ status = "running" /\ opsSpace = trace[1].held
       /\ \E spaceId \in Spaces \ {Undef, explorerSpace} : ExplorerRefresh(spaceId)
    \/ /\ status = "idle"
       /\ \E confirmation \in DeleteAnswers : RemoveDirectoryAsk(DelNode, confirmation)
    \/ runs = 0 /\ RemoveDirectory
    \/ Cancel
    \/ EngineStep
    \/ RemoveDirectoryDone

InitSwitch == DelInit /\ UpInit /\ ExpInit

SpecSwitch == InitSwitch /\ [][NextSwitch]_vars

----------------------------------------------------------------------------
(* Reading the trace of the current invocation.                            *)

Idx == 1..Len(trace)

IsCall(i, op) == trace[i].k = "call" /\ trace[i].op = op
IsDone(i, op) == trace[i].k = "done" /\ trace[i].op = op
IsListed(j) == IsDone(j, "ls") /\ trace[j].ok

\* Event q is a call made for this listed item.
Touches(q, item) ==
    IF item.type = "Folder"
    THEN IsCall(q, "ls") /\ trace[q].arg = item.id
    ELSE IsCall(q, "rm") /\ trace[q].arg \in {item.uid, item.id}

\* Event p completes this listed item: its rm succeeded, or the recursive
\* deletion of the folder returned.
Completes(p, item) ==
    IF item.type = "Folder"
    THEN trace[p].k = "ret" /\ trace[p].arg = item.id
    ELSE IsDone(p, "rm") /\ trace[p].ok /\ trace[p].arg \in {item.uid, item.id}

\* The rm and rmdir calls issued so far, in order.
MutatingCalls ==
    LET sel == SelectSeq(trace, LAMBDA e : e.k = "call" /\ e.op \in {"rm", "rmdir"})
    IN  [i \in 1..Len(sel) |-> CallRec(sel[i].op, sel[i].arg)]

\* The depth-first deletion order of folder n over the entries in present.
RECURSIVE DfsCalls(_, _), DfsOver(_, _)
DfsOver(cs, present) ==
    IF cs = <<>> THEN <<>>
    ELSE (IF tree[Head(cs)].type = "Folder"
          THEN DfsCalls(Head(cs), present)
          ELSE <<CallRec("rm", <<"uid", Head(cs)>>)>>) \o DfsOver(Tail(cs), present)
DfsCalls(n, present) ==
    DfsOver(SortedSeq(ChildrenOf(n, present)), present)
        \o <<CallRec("rmdir", <<"dir", n>>)>>

IsPrefix(s, t) == Len(s) <= Len(t) /\ SubSeq(t, 1, Len(s)) = s

Subtree(present) == ({1} \cap present) \cup Descendants(1, present)

----------------------------------------------------------------------------
(* C1: within one invocation, rmdir of a directory is issued only after    *)
(* every child of that directory's listing has been fully processed (its   *)
(* rm succeeded, or the recursive deletion of the subdirectory returned),  *)
(* and the children are processed one after another in listing order.      *)
C1_ChildrenBeforeRmdir ==
    /\ \A i \in Idx : IsCall(i, "rmdir") =>
          \E j \in 1..(i - 1) : IsListed(j) /\ trace[j].arg = trace[i].arg
    /\ \A j \in Idx : IsListed(j) =>
          LET L == trace[j].items
          IN  /\ \A m \in 1..Len(L) : \A q \in Idx : Touches(q, L[m]) =>
                    /\ q > j
                    /\ \A m0 \in 1..(m - 1) :
                          \E p \in (j + 1)..(q - 1) : Completes(p, L[m0])
              /\ \A i \in Idx : (IsCall(i, "rmdir") /\ trace[i].arg = trace[j].arg) =>
                    /\ i > j
                    /\ \A m \in 1..Len(L) :
                          \E p \in (j + 1)..(i - 1) : Completes(p, L[m])

\* rmdir of the top directory was issued after a folder and a file in it.
C1_Witness ==
    /\ \E i \in Idx : IsCall(i, "rmdir") /\ trace[i].arg = DirId(1)
    /\ \E j \in Idx : /\ IsListed(j) /\ trace[j].arg = DirId(1)
                      /\ Len(trace[j].items) >= 2
                      /\ \E m \in 1..Len(trace[j].items) :
                            trace[j].items[m].type = "Folder"

(* C2: when every remote call succeeds and no cancellation is requested,   *)
(* the rm and rmdir calls of a deletion are exactly the depth-first        *)
(* sequence: one rm per file, one rmdir per subdirectory after its         *)
(* contents, and a final rmdir of the directory itself.                    *)
C2_DepthFirstCalls ==
    (status # "idle" /\ ~faults /\ ~cancelled /\ 1 \in remote0) =>
        /\ IsPrefix(MutatingCalls, DfsCalls(1, remote0))
        /\ status # "rejected"
        /\ status = "resolved" => MutatingCalls = DfsCalls(1, remote0)

\* A deletion of a directory holding a subdirectory with a file resolved.
C2_Witness ==
    /\ status = "resolved" /\ ~faults /\ ~cancelled /\ runs = 1
    /\ Len(tree) = 3 /\ tree[2].type = "Folder" /\ tree[3].parent = 2
    /\ Len(MutatingCalls) = 3

\* The failed calls of the current invocation.
FailedDones == { i \in Idx : trace[i].k = "done" /\ ~trace[i].ok }

\* A primary rm that failed and whose fallback rm then succeeded.
Recovered(i) ==
    /\ IsDone(i, "rm") /\ ~trace[i].ok /\ trace[i].arg[1] = "uid"
    /\ \E p \in (i + 1)..Len(trace) :
          IsDone(p, "rm") /\ trace[p].ok /\ trace[p].arg = <<"id", trace[i].arg[2]>>

\* An rm failure that leaves the file undeleted: the fallback failed, or the
\* primary failed and the file has no differing fallback identifier.
Unrecovered(i) ==
    /\ IsDone(i, "rm") /\ ~trace[i].ok
    /\ \/ trace[i].arg[1] = "id"
       \/ trace[i].arg[1] = "uid" /\ tree[trace[i].arg[2]].alt # "diff"

Finished == status \in {"resolved", "rejected"}

(* C3: when rm of a file fails on its uid but succeeds on its differing    *)
(* id, the item counts as deleted, the invocation goes on with the         *)
(* remaining siblings, and (nothing else failing, no cancellation) the     *)
(* deletion resolves with everything removed.                              *)
C3_FallbackSucceeds ==
    /\ \A p \in Idx : (IsDone(p, "rm") /\ trace[p].ok /\ trace[p].arg[1] = "id") =>
          /\ trace[p].arg[2] \notin remote
          /\ p < Len(trace) => trace[p + 1].k # "throw"
          /\ status # "rejected" \/ \E i \in FailedDones : i > p
    /\ (Finished /\ ~cancelled /\ FailedDones # {}
          /\ \A i \in FailedDones : Recovered(i)) =>
          /\ status = "resolved"
          /\ Subtree(remote) = {}

\* A deletion resolved although the primary rm of its first file failed,
\* and a sibling after that file was removed as well.
C3_Witness ==
    /\ status = "resolved" /\ ~cancelled
    /\ \E i \in FailedDones : Recovered(i) /\ trace[i].arg[2] = 2
    /\ Len(tree) = 3 /\ tree[3].parent = 1 /\ remote = {}

(* C4: when rm of a file fails on both identifiers, or fails on the uid    *)
(* and no differing id exists, no further call is issued (no later         *)
(* sibling, no rmdir), no invocation returns normally, and the task ends   *)
(* rejected.                                                               *)
C4_RmFailureFatal ==
    \A i \in Idx : Unrecovered(i) =>
        /\ \A q \in (i + 1)..Len(trace) : trace[q].k \notin {"call", "ret", "done"}
        /\ inflight = {}
        /\ status \in {"running", "rejected"}
        /\ status = "running" => Top.pc \in {"retry", "throw"}

\* The fallback rm of a file failed with a sibling still to come, and the
\* task was rejected.
C4_Witness ==
    /\ status = "rejected"
    /\ \E i \in Idx : Unrecovered(i) /\ trace[i].arg = <<"id", 2>>
    /\ Len(tree) = 3 /\ tree[3].parent = 1 /\ 3 \in remote

RmCalls(n) == { q \in Idx : IsCall(q, "rm") /\ trace[q].arg[2] = n }

(* C5: per file at most two rm calls are issued, the second keyed by the   *)
(* numeric id and only after the first, keyed by the uid, failed and the   *)
(* id differs from the uid; ls and rmdir are issued at most once per       *)
(* directory.                                                              *)
C5_AtMostOneRetry ==
    /\ \A n \in DOMAIN tree :
          /\ Cardinality(RmCalls(n)) <= 2
          /\ \A q \in RmCalls(n) :
                \/ trace[q].arg = <<"uid", n>> /\ \A q0 \in RmCalls(n) : q0 >= q
                \/ /\ trace[q].arg = <<"id", n>>
                   /\ tree[n].alt = "diff"
                   /\ \E q0 \in RmCalls(n) : q0 < q /\ trace[q0].arg = <<"uid", n>>
                   /\ \E p \in 1..(q - 1) :
                         /\ IsDone(p, "rm") /\ ~trace[p].ok
                         /\ trace[p].arg = <<"uid", n>>
    /\ \A q1, q2 \in Idx :
          (/\ trace[q1].k = "call" /\ trace[q2].k = "call"
           /\ trace[q1].op \in {"ls", "rmdir"}
           /\ trace[q1].op = trace[q2].op /\ trace[q1].arg = trace[q2].arg) => q1 = q2

\* Both the primary and the fallback rm of a file were issued.
C5_Witness == \E n \in DOMAIN tree : Cardinality(RmCalls(n)) = 2

\* The call issued at q, when it is no longer the last event, settles next;
\* only the cancellation request may come in between.
SettlesNext(q) ==
    LET Same(p) == /\ trace[p].k = "done" /\ trace[p].op = trace[q].op
                   /\ trace[p].arg = trace[q].arg
    IN  \/ q = Len(trace)
        \/ Same(q + 1)
        \/ trace[q + 1].k = "cancel" /\ (q + 1 = Len(trace) \/ Same(q + 2))

(* C6: the cancellation flag is checked at the top of every item           *)
(* iteration: no item is started once cancellation was requested; the      *)
(* invocation that sees the flag returns without a call for that item or   *)
(* a later sibling and without its rmdir; a call in flight when the        *)
(* request comes is not dropped and settles as usual.                      *)
C6_CooperativeCancel ==
    /\ \A q \in Idx :
          (IsCall(q, "ls") \/ (IsCall(q, "rm") /\ trace[q].arg[1] = "uid")) =>
              \A p \in 1..(q - 1) : trace[p].k # "cancel"
    /\ \A p \in Idx : (trace[p].k = "ret" /\ trace[p].op = "cancel") =>
          /\ \E c \in 1..(p - 1) : trace[c].k = "cancel"
          /\ \A q \in Idx : ~(IsCall(q, "rmdir") /\ trace[q].arg = trace[p].arg)
          /\ \A j \in Idx : (IsListed(j) /\ trace[j].arg = trace[p].arg) =>
                \A m \in trace[p].at..Len(trace[j].items) :
                    \A q \in Idx : ~Touches(q, trace[j].items[m])
    /\ \A q \in Idx : trace[q].k = "call" => SettlesNext(q)
    /\ \A q \in Idx : (trace[q].k = "call" /\ (q = Len(trace) \/
                          (q + 1 = Len(trace) /\ trace[q + 1].k = "cancel"))) =>
          CallRec(trace[q].op, trace[q].arg) \in inflight

\* Cancellation came while the rm of the first file was in flight; the rm
\* then succeeded, and the invocation returned leaving the second file.
C6_Witness ==
    /\ Len(trace) >= 5
    /\ IsCall(3, "rm") /\ trace[4].k = "cancel"
    /\ IsDone(5, "rm") /\ trace[5].ok
    /\ \E p \in Idx : trace[p].k = "ret" /\ trace[p].op = "cancel" /\ trace[p].at = 2
    /\ status = "resolved" /\ remote = {1, 3}

(* C7: re-invoking the deletion of a directory whose previous deletion     *)
(* failed terminates, and when the executable serves every call it can     *)
(* and no cancellation is requested, it ends with the directory and all    *)
(* of its remaining descendants removed (resolving when the directory      *)
(* was still there to delete).                                             *)
C7_ReinvocationConverges ==
    /\ []((runs >= 2 /\ prev = "rejected" /\ ~faults /\ ~cancelled /\ Finished) =>
            /\ Subtree(remote) = {}
            /\ 1 \in remote0 => status = "resolved")
    /\ ((runs >= 2 /\ prev = "rejected" /\ status = "running") ~> Finished)

\* A second invocation removed what the failed first one had left, after
\* the first one had removed part of the tree.
C7_Witness ==
    /\ runs = 2 /\ prev = "rejected" /\ ~faults /\ ~cancelled
    /\ status = "resolved" /\ remote = {}
    /\ Cardinality(remote0) = 2 /\ Len(tree) = 3

RECURSIVE Ancestors(_)
Ancestors(n) == IF n = 0 THEN {} ELSE {n} \cup Ancestors(tree[n].parent)

(* C8: when the final rmdir of a directory fails, no invocation returns    *)
(* normally afterwards and no further call is issued; the invocation of    *)
(* that directory and of every enclosing directory throws, and the task    *)
(* ends rejected, never resolved.                                          *)
C8_RmdirFailureFatal ==
    \A i \in Idx : (IsDone(i, "rmdir") /\ ~trace[i].ok) =>
        /\ \A q \in (i + 1)..Len(trace) : trace[q].k \in {"throw", "cancel"}
        /\ status \in {"running", "rejected"}
        /\ status = "running" => Top.pc = "throw"
        /\ status = "rejected" =>
              \A a \in Ancestors(trace[i].arg[2]) :
                  \E q \in (i + 1)..Len(trace) :
                      trace[q].k = "throw" /\ trace[q].arg = <<"dir", a>>

\* The rmdir of a subdirectory failed and the task was rejected.
C8_Witness ==
    /\ status = "rejected"
    /\ \E i \in Idx : IsDone(i, "rmdir") /\ ~trace[i].ok /\ trace[i].arg = <<"dir", 2>>

\* The calls the trace shows as issued and not yet settled.
Pending ==
    { q \in Idx : /\ trace[q].k = "call"
                  /\ \A p \in (q + 1)..Len(trace) :
                        ~(/\ trace[p].k = "done" /\ trace[p].op = trace[q].op
                          /\ trace[p].arg = trace[q].arg) }

(* C9: within one invocation at most one external call is in flight at     *)
(* any time, over all recursion depths: each call is issued only after     *)
(* the previous one has settled.                                           *)
C9_OneCallInFlight ==
    /\ Cardinality(inflight) <= 1
    /\ Cardinality(Pending) <= 1
    /\ inflight = { CallRec(trace[q].op, trace[q].arg) : q \in Pending }
    /\ \A q1, q2 \in Idx : (q1 < q2 /\ trace[q1].k = "call" /\ trace[q2].k = "call") =>
          \E p \in (q1 + 1)..(q2 - 1) :
              /\ trace[p].k = "done" /\ trace[p].op = trace[q1].op
              /\ trace[p].arg = trace[q1].arg

\* A call of a nested invocation is in flight, after earlier calls settled.
C9_Witness ==
    /\ Cardinality(inflight) = 1 /\ Len(stack) = 2
    /\ \E c \in inflight : c.op = "rm"
    /\ Cardinality({ q \in Idx : trace[q].k = "done" }) >= 2

\* What the -space-id qualifier of a call issued after the e-th refresh
\* has to be.
QualifierAfter(e) ==
    LET sp == IF e = 0 THEN Undef ELSE spaceAt[e]
    IN  IF sp \in {Undef, "my-home"} THEN Omitted ELSE sp

RootLsAfter(e) ==
    [cmd |-> "ls", params |-> <<"-skipverify", "true">>, folderId |-> None,
     spaceId |-> QualifierAfter(e)]

(* C10: refresh(spaceContext) leaves the node cache empty, sets the space  *)
(* context and fires one change notification; every root children request  *)
(* issues a root ls call under the space context of the latest refresh     *)
(* before it, and is answered with the nodes built from that call's        *)
(* listing, never with nodes cached before.                                *)
C10_RefreshThenFreshRoot ==
    /\ [](\A r \in reqs : r.element = NoNode => r.args = RootLsAfter(r.epoch))
    /\ []((answer.ser # 0 /\ answer.element = NoNode) =>
            /\ answer.args = RootLsAfter(answer.epoch)
            /\ \A i \in 1..Len(answer.result) :
                  /\ answer.result[i].from = answer.ser
                  /\ answer.result[i].parent = None)
    /\ [][Len(spaceAt') # Len(spaceAt) =>
            /\ nodes' = EmptyMap
            /\ fired' = fired + 1
            /\ activeSpaceId' = spaceAt'[Len(spaceAt')]]_vars

\* A root request issued after a refresh to another space was answered
\* from its own listing while the cache also holds nodes of an earlier
\* listing call.
C10_Witness ==
    /\ answer.ser # 0 /\ answer.element = NoNode /\ answer.ok
    /\ answer.epoch = Len(spaceAt) /\ answer.epoch >= 1
    /\ answer.args.spaceId = "space-1"
    /\ Len(answer.result) >= 1
    /\ \E i \in DOMAIN nodes : nodes[i].from < answer.ser

(* C11: the node cache is never partially invalidated: every step either   *)
(* keeps all cached ids (a listing only adds or overwrites entries) or     *)
(* empties the cache, which only a refresh does; and an entry is added or  *)
(* changed only by a root or folder listing that is answered in that step. *)
C11_NoPartialInvalidation ==
    [][/\ \/ \A i \in DOMAIN nodes : i \in DOMAIN nodes'
          \/ nodes' = EmptyMap /\ Len(spaceAt') = Len(spaceAt) + 1
       /\ \A i \in DOMAIN nodes' :
             (i \notin DOMAIN nodes \/ nodes'[i] # nodes[i]) =>
                 \E r \in reqs \ reqs' :
                     /\ nodes'[i].from = r.ser
                     /\ r.element = NoNode \/ r.element.isDirectory]_vars

\* After a refresh the cache holds the nodes of two listing calls.
C11_Witness ==
    /\ Len(spaceAt) >= 1
    /\ \E i, j \in DOMAIN nodes :
          /\ i # j /\ nodes[i].from # nodes[j].from
          /\ nodes[i].from > 0 /\ nodes[j].from > 0

\* A path lies under a directory path: it continues it after a separator.
Under(p, dir) == StartsWith(p, dir \o <<"/">>)

(* C12: when a listing is converted with a parent supplied, every produced *)
(* node's path lies under the parent's path, with the parent's path        *)
(* prepended exactly when the reported path is not already under it and    *)
(* left as reported when it is.                                            *)
C12_ParentPathOnce ==
    (answer.ok /\ answer.element # NoNode) =>
        \A i \in 1..Len(answer.result) :
            LET n == answer.result[i]
                pp == answer.element.path
            IN  /\ Under(n.path, pp)
                /\ ~Under(n.reported, pp) => n.path = PathJoin(pp, n.reported)
                /\ Under(n.reported, pp) => n.path = n.reported

(* C13: getParent(node) returns the node's stored parent whenever one is   *)
(* set, and only for a node without a stored parent the cached node whose  *)
(* path is the dirname of the node's path.                                 *)
C13_StoredParentFirst ==
    parentOf.element # NoNode =>
        IF parentOf.element.parent # None
        THEN parentOf.result.id = parentOf.element.parent
        ELSE parentOf.result = GetNodeByPath(Dirname(parentOf.element.path))

(* C15: callPfdaCli resolves exactly when its process closes with exit     *)
(* code 0 and stdout parses as JSON, and then with the parsed value; a     *)
(* nonzero exit code rejects with the stderr text, or with 'pfda exited    *)
(* with code N' when stderr is empty; exit code 0 with stdout that is not  *)
(* JSON rejects with a parse error and yields no value.                    *)
C15_ResolvesIffZeroAndJson ==
    settled.kind # "none" =>
        /\ settled.kind \in {"resolved", "rejected"}
        /\ settled.kind = "resolved" <=>
              (settled.event = "close" /\ settled.code = 0 /\ settled.isJson)
        /\ settled.kind = "resolved" =>
              settled.value = settled.stdout /\ settled.message = ""
        /\ settled.kind = "rejected" => settled.value = ""
        /\ (settled.event = "close" /\ settled.code # 0) =>
              settled.message =
                  IF settled.stderr # "" THEN settled.stderr
                  ELSE "pfda exited with code " \o ToString(settled.code)
        /\ (settled.event = "close" /\ settled.code = 0 /\ ~settled.isJson) =>
              settled.message =
                  "Failed to parse pfda JSON output: " \o settled.stdout

\* A call whose process exited with code 0 and free text on stdout was
\* rejected.
C15_Witness ==
    /\ settled.event = "close" /\ settled.code = 0
    /\ settled.stdout = "Done!" /\ ~settled.isJson
    /\ settled.kind = "rejected"

(* C17: an upload whose total file count is zero warns and completes      *)
(* successfully without spawning the process and without changing the      *)
(* status bar item.                                                        *)
C17_NoFilesNoProcess ==
    [][\A u \in UploadIds :
          (ups[u].pc = "idle" /\ ups'[u].pc # "idle"
           /\ TotalFiles(ups'[u].filePaths, 1) = 0) =>
              /\ ups'[u].pc = "returned"
              /\ ups'[u].warned
              /\ ups'[u].result = "resolved"
              /\ ups'[u].argv = <<>>
              /\ pfdaStatusBarItem' = pfdaStatusBarItem]_vars

\* The upload of an empty directory returned with a warning.
C17_Witness ==
    /\ ups["u1"].pc = "returned" /\ ups["u1"].filePaths = <<"e">>
    /\ ups["u1"].warned /\ ups["u1"].result = "resolved"
    /\ pfdaStatusBarItem = StatusIdle

(* C18: the total of an upload is the number of its non-directory inputs   *)
(* plus the files found recursively under its directory inputs (three      *)
(* files and a directory of two give five); every stdout line holding the  *)
(* per-file marker adds one to the processed counter; and once as many     *)
(* markers as the total were processed the progress reported is 100%.      *)
C18_InputTotal(filePaths) ==
    Cardinality({i \in 1..Len(filePaths) : LocalFs(filePaths[i]).kind # "dir"})
    + 2 * Cardinality({i \in 1..Len(filePaths) : filePaths[i] = "d2"})

C18_TotalIsFileCount ==
    \A u \in UploadIds :
        ups[u].pc \in {"running", "failed", "closed"} =>
            /\ ups[u].totalFiles = C18_InputTotal(ups[u].filePaths)
            /\ ups[u].filePaths = <<"f1", "f2", "f3", "d2">> => ups[u].totalFiles = 5

C18_FullProgress ==
    \A u \in UploadIds :
        (ups[u].hasProgress /\ ups[u].processedCount = ups[u].totalFiles
         /\ ups[u].processedCount > 0) => ups[u].percent = 100

C18_LineCounted ==
    \A u \in UploadIds :
        ups[u].tail = <<>> => ups[u].processedCount = ups[u].written

C18_TotalAndProgress ==
    C18_TotalIsFileCount /\ C18_LineCounted /\ C18_FullProgress

(* C19: an upload whose process was spawned succeeds exactly when the      *)
(* process exits with code 0; on another code it fails with the stderr     *)
(* captured, or with the exit-code message when stderr is empty, whatever  *)
(* markers were seen.                                                      *)
C19_SucceedsIffExitZero ==
    \A u \in UploadIds :
        (ups[u].pc = "closed" /\ ups[u].code # SpawnFailedCode) =>
            /\ ups[u].result = "resolved" <=> ups[u].code = 0
            /\ ups[u].code # 0 =>
                  /\ ups[u].result = "rejected"
                  /\ ups[u].error = IF ups[u].stderr # "" THEN ups[u].stderr
                                    ELSE "pfda upload exited with code "
                                         \o ToString(ups[u].code)

\* An upload failed with the stderr captured after all its markers were seen.
C19_Witness ==
    /\ ups["u1"].pc = "closed" /\ ups["u1"].code = 1
    /\ ups["u1"].processedCount = ups["u1"].totalFiles
    /\ ups["u1"].result = "rejected" /\ ups["u1"].error = "denied"

(* C20: the status bar item shows processed/total while an upload runs and *)
(* is reset to idle whenever an upload whose process was started ends, on  *)
(* success and on failure alike; so once no upload is in flight the item   *)
(* is idle.                                                                *)
C20_InFlight(u) == ups[u].pc \in {"running", "failed"}

C20_Shows(u) ==
    /\ pfdaStatusBarItem.icon = "cloud-upload"
    /\ pfdaStatusBarItem.processed = ups[u].processedCount
    /\ pfdaStatusBarItem.total = ups[u].totalFiles

\* The statement as made: of every running upload.
C20_ShowsProgressWhileRunning ==
    /\ \A u \in UploadIds : ups[u].pc = "running" => C20_Shows(u)
    /\ (\A u \in UploadIds : ~C20_InFlight(u)) => pfdaStatusBarItem = StatusIdle

\* C20 as amended: the item shows processed/total of a running upload when
\* no other upload was started; with several uploads it shows the values of
\* one of those in flight or is idle; once no upload is in flight it is
\* idle.
C20_ShowsProgressOfOneUpload ==
    /\ \A u \in UploadIds :
          (ups[u].pc = "running" /\ \A v \in UploadIds \ {u} : ups[v].pc = "idle")
              => C20_Shows(u)
    /\ \/ pfdaStatusBarItem = StatusIdle
       \/ \E u \in UploadIds : C20_InFlight(u) /\ C20_Shows(u)
    /\ (\A u \in UploadIds : ~C20_InFlight(u)) => pfdaStatusBarItem = StatusIdle

\* Both uploads ended, one failed and one succeeded, each after a marker.
C20_Witness ==
    /\ ups["u1"].pc = "closed" /\ ups["u1"].code = 1 /\ ups["u1"].processedCount = 1
    /\ ups["u2"].pc = "closed" /\ ups["u2"].code = 0 /\ ups["u2"].processedCount = 1
    /\ pfdaStatusBarItem = StatusIdle

(* C16: the argument list of every invocation that is not streaming holds  *)
(* '-json' exactly once; the streaming upload and download commands are    *)
(* invoked without it, and their stdout is never parsed as JSON.           *)
C16_JsonFlags(argv) == Cardinality({i \in 1..Len(argv) : argv[i] = "-json"})

C16_Streaming(argv) == argv[1] \in {"upload-file", "download"}

C16_NonStreamingOnce ==
    \A p \in procs : ~C16_Streaming(p.argv) => C16_JsonFlags(p.argv) = 1

C16_UploadWithoutJson ==
    \A u \in UploadIds : ups[u].argv # <<>> => C16_JsonFlags(ups[u].argv) = 0

C16_JsonFlagOnce ==
    /\ C16_NonStreamingOnce
    /\ C16_UploadWithoutJson
    /\ \A p \in procs : C16_Streaming(p.argv) => C16_JsonFlags(p.argv) = 0
    /\ (settled.site \in {"downloadFile", "downloadAndOpenFile"}
        /\ settled.event = "close" /\ settled.code = 0) => settled.kind = "resolved"

(* C14: every ls, mkdir, rm, rmdir, cat, head, download and upload-file    *)
(* invocation carries '-space-id <id>' exactly when the active space is    *)
(* set and is not 'my-home'; for the home or unset space the qualifier is  *)
(* left out altogether.                                                    *)
C14_Carries(argv, space) ==
    LET at == {i \in 1..Len(argv) : argv[i] = "-space-id"}
    IN  IF space \notin {Undef, "my-home"}
        THEN /\ Cardinality(at) = 1
             /\ \A i \in at : i < Len(argv) /\ argv[i + 1] = space
        ELSE at = {}

C14_SpaceQualifier ==
    /\ \A r \in reqs : r.args.cmd = "ls" /\ r.args.spaceId = QualifierAfter(r.epoch)
    /\ \A c \in inflight : C14_Carries(DelArgs(c, delSpace), opsSpace)
    /\ \A p \in procs : C14_Carries(p.argv, p.space)
    /\ \A u \in UploadIds :
          ups[u].argv # <<>> => C14_Carries(ups[u].argv, ups[u].active)

\* An rm call of a deletion under space-1 is in flight with the qualifier.
C14_Witness ==
    /\ opsSpace = "space-1"
    /\ \E c \in inflight :
          /\ c.op = "rm"
          /\ LET argv == DelArgs(c, delSpace)
             IN  SubSeq(argv, Len(argv) - 1, Len(argv)) = <<"-space-id", "space-1">>

(* C21: cancelling an upload does not end the process spawned: it runs to  *)
(* its exit, the upload settles by its exit code as without cancellation,  *)
(* and all that cancellation does is suppress the progress reports that    *)
(* would follow.                                                           *)
C21_ProcessKeptAndSettled ==
    [][\A u \in UploadIds :
          /\ (~ups[u].cancelled /\ ups'[u].cancelled) =>
                /\ ups'[u] = [ups[u] EXCEPT !.cancelled = TRUE]
                /\ pfdaStatusBarItem' = pfdaStatusBarItem
          /\ (ups[u].cancelled /\ ups[u].pc = "running" /\ ups'[u].pc = "closed") =>
                /\ ups'[u].result = UploadOutcome(ups'[u].code, ups'[u].stderr).result
                /\ ups'[u].error = UploadOutcome(ups'[u].code, ups'[u].stderr).error]_vars

C21_NoReportAfterCancel ==
    [][\A u \in UploadIds :
          (ups[u].cancelled /\ ups[u].pc = "running" /\ ups'[u].pc = "running") =>
              /\ ups'[u].increments = ups[u].increments
              /\ ups'[u].message = ups[u].message
              /\ pfdaStatusBarItem' = pfdaStatusBarItem]_vars

C21_CancelOnlySuppressesReports ==
    [][\A u \in UploadIds :
          /\ (~ups[u].cancelled /\ ups'[u].cancelled) =>
                /\ ups'[u] = [ups[u] EXCEPT !.cancelled = TRUE]
                /\ pfdaStatusBarItem' = pfdaStatusBarItem
          /\ (ups[u].cancelled /\ ups[u].pc = "running" /\ ups'[u].pc = "closed") =>
                /\ ups'[u].result = UploadOutcome(ups'[u].code, ups'[u].stderr).result
                /\ ups'[u].error = UploadOutcome(ups'[u].code, ups'[u].stderr).error
          /\ (ups[u].cancelled /\ ups[u].pc = "running" /\ ups'[u].pc = "running") =>
                /\ ups'[u].increments = ups[u].increments
                /\ ups'[u].message = ups[u].message
                /\ pfdaStatusBarItem' = pfdaStatusBarItem]_vars

(* C22: handleDrop routes by the kind of the payload alone: a payload with *)
(* the internal tree item never leads to an upload, a payload with the URI *)
(* list only never leads to a move; a payload with both is internal.       *)
C22_RoutesByKind ==
    /\ drop.internal =>
          /\ drop.asked = 0 /\ drop.uploadCalls = 0
          /\ ups["u1"].pc = "idle"
    /\ (~drop.internal /\ drop.uriList) => drop.moves = <<>>

\* A payload with both items moved its two nodes and uploaded nothing.
C22_Witness ==
    /\ drop.pc = "done" /\ drop.internal /\ drop.uriList
    /\ Len(drop.moves) = 2 /\ drop.uploadCalls = 0

(* C23: an internal drop issues one move per source node, to the target    *)
(* path joined with the basename of the source, whenever the target is a   *)
(* directory or absent (the root).                                         *)
C23_Dest(target, nodePath) ==
    IF target.path = <<>> THEN Basename(nodePath)
    ELSE target.path \o <<"/">> \o Basename(nodePath)

C23_MovesFor(target) ==
    (drop.pc = "done" /\ drop.internal /\ drop.target = target) =>
        /\ Len(drop.moves) = Len(drop.sourceNodes)
        /\ \A i \in 1..Len(drop.moves) :
              /\ drop.moves[i].from = drop.sourceNodes[i]
              /\ drop.moves[i].to = C23_Dest(target, drop.sourceNodes[i])

C23_MovesOntoDirectory == C23_MovesFor(DropDir)

C23_OneMovePerSource == C23_MovesFor(DropDir) /\ C23_MovesFor(DropRoot)

(* C24: in an internal drop a move that fails is reported by one error     *)
(* message and the moves of the remaining sources go on; the refresh       *)
(* callback is called once, after the moves, whether none, some or all of  *)
(* them failed.                                                            *)
C24_Failed == {i \in 1..Len(drop.results) : ~drop.results[i]}

C24_FailuresDoNotStop ==
    drop.internal =>
        /\ Len(drop.errors) = Cardinality(C24_Failed)
        /\ drop.pc # "done" => drop.refreshed = <<>>
        /\ drop.pc = "done" =>
              /\ Len(drop.refreshed) = 1
              /\ drop.target.isDirectory =>
                    /\ Len(drop.moves) = Len(drop.sourceNodes)
                    /\ Len(drop.results) = Len(drop.sourceNodes)

\* The first of two moves failed, the second was made, one refresh followed.
C24_Witness ==
    /\ drop.pc = "done" /\ drop.internal
    /\ drop.results = <<FALSE, TRUE>>
    /\ Len(drop.errors) = 1 /\ Len(drop.refreshed) = 1

(* C25: for a drop of a URI list the folder id given to the upload is the  *)
(* target's own id when the target is a directory, else the id of the      *)
(* target's parent when it has one, else none (the root).                  *)
C25_Folder(target) ==
    IF target.isDirectory THEN target.id
    ELSE IF target.parent # "" THEN target.parent ELSE "none"

C25_DestinationFolder ==
    ups["u1"].argv # <<>> =>
        LET argv == ups["u1"].argv
            at == {i \in 1..Len(argv) : argv[i] = "-folder-id"}
        IN  IF C25_Folder(drop.target) = "none" THEN at = {}
            ELSE /\ Cardinality(at) = 1
                 /\ \A i \in at : i < Len(argv) /\ argv[i + 1] = C25_Folder(drop.target)

\* A drop onto a file in a directory uploads into that directory.
C25_Witness ==
    /\ drop.target = DropFileIn
    /\ \E i \in 1..(Len(ups["u1"].argv) - 1) :
          ups["u1"].argv[i] = "-folder-id" /\ ups["u1"].argv[i + 1] = "folder-1"

(* C26: for a drop of a URI list the upload is invoked only after the user *)
(* confirmed it; when the confirmation is declined or dismissed, or the    *)
(* list holds no URI, no upload is started and no refresh is triggered.    *)
C26_UploadOnlyConfirmed ==
    /\ (drop.uploadCalls > 0 \/ ups["u1"].pc # "idle") =>
          drop.asked = 1 /\ drop.response = "Upload"
    /\ (~drop.internal /\ drop.pc = "done"
        /\ (drop.response \in {"Cancel", Undef} \/ drop.filePaths = <<>>)) =>
          /\ drop.uploadCalls = 0
          /\ ups["u1"].pc = "idle"
          /\ drop.refreshed = <<>>

\* The confirmation of a drop of a URI list was dismissed.
C26_Witness ==
    /\ drop.pc = "done" /\ drop.uriList /\ ~drop.internal
    /\ drop.asked = 1 /\ drop.response = Undef
    /\ drop.uploadCalls = 0 /\ drop.refreshed = <<>>

(* C27: a drop onto a file node is rejected before any remote call:        *)
(* validateDrop returns false for it, and neither a move nor an upload     *)
(* results from it.                                                        *)
C27_FileTargetRejected ==
    (drop.pc # "idle" /\ drop.target # DropRoot /\ ~drop.target.isDirectory) =>
        /\ ~ValidateDrop(drop.target)
        /\ drop.moves = <<>>
        /\ drop.uploadCalls = 0
        /\ ups["u1"].pc = "idle"

C27_NoMoveOntoFile ==
    (drop.pc # "idle" /\ drop.target # DropRoot /\ ~drop.target.isDirectory) =>
        /\ ~ValidateDrop(drop.target)
        /\ drop.moves = <<>>
----------------------------------------------------------------------------
\* C28: createDirectory with an empty directory name, or with a dismissed
\* prompt, is rejected before any remote call: no process running mkdir was
\* spawned for such a name, and the command that ended without a call
\* returned false and showed no success message.
C28_EmptyNameRejected ==
    /\ \A p \in procs :
          p.site = "createDirectory" =>
              /\ p.argv[1] = "mkdir"
              /\ p.argv[2] \notin {"", Undef}
    /\ (opDone.site = "createDirectory" /\ opDone.calls = 0) =>
          opDone.returned = "false" /\ opDone.infos = 0

\* createDirectory ended without a call, no process running.
C28_Witness ==
    /\ opDone.site = "createDirectory" /\ opDone.calls = 0
    /\ opDone.returned = "false"
    /\ procs = {}

----------------------------------------------------------------------------
\* A command ended whose remote call, deletion or upload had failed.
C29_Failed == opDone.site # "none" /\ opDone.failed

\* C29: every remote-call failure inside a command (mkdir, rm, recursive
\* directory deletion, cat, head, download, upload) is surfaced at the end
\* of the command as exactly one error message, and the command does not
\* report success: no success message and no true returned.
C29_FailureSurfacedOnce ==
    C29_Failed =>
        /\ opDone.errors = 1
        /\ opDone.infos = 0
        /\ opDone.returned # "true"

\* The same for the commands other than removeDirectory.
C29_OtherCommandsSurfaceOnce ==
    (C29_Failed /\ opDone.site # "removeDirectory") =>
        /\ opDone.errors = 1
        /\ opDone.infos = 0
        /\ opDone.returned # "true"

----------------------------------------------------------------------------
\* The updates of the sink made before update k by the level of directory
\* dir.
C30_EarlierOf(dir, k) == { m \in 1..(k - 1) : sink[m].dir = dir }

\* Update k is the update of one item of its level: the level listed the
\* item at the place the count states, the total stated is the length of
\* that listing, the item was fully processed, and the level made one
\* update for each item before it.
C30_OwnCount(k) ==
    LET r == sink[k]
    IN  /\ \E j \in Idx :
              /\ IsListed(j) /\ trace[j].arg = r.dir
              /\ r.totalItems = Len(trace[j].items)
              /\ r.processedCount \in 1..r.totalItems
              /\ trace[j].items[r.processedCount] = r.item
              /\ \E p \in Idx : p > j /\ Completes(p, r.item)
        /\ Cardinality(C30_EarlierOf(r.dir, k)) = r.processedCount - 1

\* Item i of the listing settled by event j was fully processed.
C30_Processed(j, i) ==
    \E p \in Idx : p > j /\ Completes(p, trace[j].items[i])

----------------------------------------------------------------------------
\* The listing answered in this step was issued after the latest refresh,
\* under the space that refresh set.
C31_AnsweredFresh ==
    /\ answer'.epoch = Len(spaceAt')
    /\ answer'.args.spaceId = SpaceQualifier'

\* C31: the nodes of a listing that was in flight when refresh ran are not
\* added to the cache afterwards: whenever an entry of the cache is added or
\* changed, it comes from a listing issued after the latest refresh, under
\* the space that refresh set; with the cache emptied by every refresh,
\* every cached node is of such a listing at every moment.
C31_NoStaleListingCached ==
    [][\A i \in DOMAIN nodes' :
          (i \notin DOMAIN nodes \/ nodes'[i] # nodes[i]) =>
              /\ nodes'[i].from = answer'.ser
              /\ C31_AnsweredFresh]_vars

\* The listings answered without a refresh since their issue add their
\* nodes under the space they were issued for.
C31_FreshListingCached ==
    [][(answer' # answer /\ answer'.ok /\ answer'.epoch = Len(spaceAt')) =>
          /\ answer'.args.spaceId = SpaceQualifier'
          /\ \A i \in 1..Len(answer'.result) :
                \E j \in DOMAIN nodes' : nodes'[j] = answer'.result[i]]_vars

----------------------------------------------------------------------------
\* Event j is a call issued after the cancellation was requested.
C32_CallAfterCancel(j, ops) ==
    /\ trace[j].k = "call" /\ trace[j].op \in ops
    /\ \E i \in Idx : i < j /\ trace[i].k = "cancel"

\* C32: after the cancellation of a deletion was requested, the task
\* issues no new rm and no new rmdir call at any depth; calls in flight
\* only complete.
C32_NoMutationAfterCancel ==
    \A j \in Idx : ~C32_CallAfterCancel(j, {"rm", "rmdir"})

\* After the request no item is started: no ls of a subdirectory and no rm
\* of a file by its uid is issued.
C32_NoItemStartedAfterCancel ==
    \A j \in Idx :
        /\ ~C32_CallAfterCancel(j, {"ls"})
        /\ C32_CallAfterCancel(j, {"rm"}) => trace[j].arg[1] = "id"

----------------------------------------------------------------------------
\* removeDirectory has shown 'Directory ... deleted successfully.'
C33_SuccessShown == opDone.site = "removeDirectory" /\ opDone.infos = 1

\* C33: removeDirectory shows the 'deleted successfully' message only if
\* the rmdir call for the directory succeeded: it is not shown for a
\* deletion that returned on cancellation or that left the directory in
\* place.
C33_SuccessOnlyAfterRmdir ==
    C33_SuccessShown =>
        /\ \E p \in Idx : /\ IsDone(p, "rmdir") /\ trace[p].ok
                          /\ trace[p].arg = DirId(1)
        /\ 1 \notin remote
        /\ \A p \in Idx : ~(trace[p].k = "ret" /\ trace[p].op = "cancel"
                             /\ trace[p].arg = DirId(1))

\* The message is shown only when deleteRemoteDirectory resolved, and a
\* deletion that was not cancelled and resolved has removed the directory.
C33_SuccessOnlyAfterResolve ==
    C33_SuccessShown =>
        /\ status = "resolved"
        /\ ~cancelled => 1 \notin remote

----------------------------------------------------------------------------
\* C34: during an upload the counter of processed files never exceeds the
\* computed total, the percentage reported never exceeds 100, and the
\* increments reported to the progress sink sum to at most 100, whatever
\* lines the process writes.
C34_ProgressBounded ==
    \A u \in UploadIds :
        ups[u].pc # "idle" =>
            /\ ups[u].processedCount <= ups[u].totalFiles
            /\ ups[u].percent <= 100
            /\ ups[u].increments <= 100 * ups[u].totalFiles

\* The counter is bounded by the total as long as the process writes no
\* more marker lines than there are files.
C34_CounterFollowsLines ==
    \A u \in UploadIds :
        (ups[u].pc # "idle" /\ ups[u].written <= ups[u].totalFiles) =>
            ups[u].processedCount <= ups[u].totalFiles

\* The percentage reported is within 100 while the counter is within the
\* total.
C34_PercentOfCounter ==
    \A u \in UploadIds :
        (ups[u].pc # "idle" /\ ups[u].processedCount <= ups[u].totalFiles) =>
            ups[u].percent <= 100

----------------------------------------------------------------------------
\* Event j is the failure of the ls call of an invocation.
C35_LsFailed(j) == IsDone(j, "ls") /\ ~trace[j].ok

\* Event q is an rm or rmdir call for the directory dir: its rmdir, or the
\* rm of an entry of it.
C35_MutatesDir(q, dir) ==
    \/ IsCall(q, "rmdir") /\ trace[q].arg = dir
    \/ IsCall(q, "rm") /\ tree[NodeOf(trace[q].arg)].parent = NodeOf(dir)

\* C35: if the listing call of a deletion invocation fails, the invocation
\* fails without any rm or rmdir call for its directory, and the failure
\* propagates to the top-level task: nothing but the throws of the
\* invocation and of its callers follows, no call is issued any more, and
\* the task ends rejected.
C35_LsFailureFatal ==
    \A j \in Idx : C35_LsFailed(j) =>
        /\ \A q \in Idx : ~C35_MutatesDir(q, trace[j].arg)
        /\ \A q \in (j + 1)..Len(trace) : trace[q].k \in {"throw", "cancel"}
        /\ \A q \in (j + 1)..Len(trace) :
              (\A m \in (j + 1)..(q - 1) : trace[m].k = "cancel") =>
                  trace[q].k = "cancel" \/ trace[q].arg = trace[j].arg
        /\ status \in {"running", "rejected"}
        /\ stack = <<>> => status = "rejected"

\* The ls call of a subdirectory failed after a file of the directory above
\* was removed, and the task ended rejected.
C35_Witness ==
    /\ status = "rejected"
    /\ \E j \in Idx :
          /\ C35_LsFailed(j) /\ trace[j].arg # DirId(1)
          /\ \E p \in 1..(j - 1) : IsDone(p, "rm") /\ trace[p].ok
    /\ trace[Len(trace)].k = "throw" /\ trace[Len(trace)].arg = DirId(1)

----------------------------------------------------------------------------
\* The drop handled has issued a mutating call: an mv command, or the
\* upload-file process of its upload, which was spawned and has run.
C36_DropMutated ==
    \/ drop.moves # <<>>
    \/ ups["u1"].argv # <<>> /\ ups["u1"].error # "spawn failed"

\* C36: whenever the drop handler has issued a mutating remote call and has
\* finished, whether the call succeeded or failed, the refresh that clears
\* the node cache was called.
C36_RefreshAfterMutation ==
    (drop.pc = "done" /\ C36_DropMutated) => Len(drop.refreshed) >= 1

\* The refresh is called after the moves, failed or not, and after an
\* upload that succeeded.
C36_RefreshAfterMovesAndUploaded ==
    (drop.pc = "done" /\ C36_DropMutated
        /\ (drop.moves # <<>> \/ ups["u1"].result = "resolved")) =>
            Len(drop.refreshed) = 1


\* The five active space ids: those of the explorer, the tree provider, the
\* file operations, the file opener and the drag and drop controller.
C37_Held ==
    <<explorerSpace, activeSpaceId, opsSpace, openerSpace, dndSpace>>

\* Claim C37, first part: once the explorer is constructed, the five active
\* space ids are equal and defined in every state.
C37_SpacesAgree ==
    /\ explorerSpace # Undef
    /\ \A i \in 1..5 : C37_Held[i] = explorerSpace

\* Claim C37, second part: refresh(spaceId) sets the five ids to spaceId, as
\* a command or as the callback of a drop, and refresh() without an argument
\* leaves them as they are.
C37_RefreshSetsAll ==
    /\ \A spaceId \in Spaces :
         ExplorerRefresh(spaceId) =>
           IF spaceId # Undef
           THEN \A i \in 1..5 : C37_Held'[i] = spaceId
           ELSE C37_Held' = C37_Held
    /\ Len(drop'.refreshed) > Len(drop.refreshed) =>
         \A i \in 1..5 : C37_Held'[i] = drop'.refreshed[Len(drop'.refreshed)]

\* Claim C37: after the file explorer is constructed the active space ids of
\* the explorer, the tree provider, the file operations, the file opener and
\* the drag and drop controller are equal and defined in every state;
\* refresh(spaceId) sets them all to spaceId and refresh() without argument
\* leaves them unchanged.
C37_OneActiveSpace ==
    []C37_SpacesAgree /\ [][C37_RefreshSetsAll]_vars

\* A space was selected, then a drop uploaded its files and called the
\* refresh callback, and the five ids are those of the space selected.
C37_Witness ==
    /\ Len(spaceAt) = 3
    /\ spaceAt[2] = "space-1"
    /\ drop.pc = "done"
    /\ Len(drop.refreshed) = 1
    /\ \A i \in 1..5 : C37_Held[i] = "space-1"


\* The user answered 'Delete' to the confirmation of the command of the given
\* site, which named the node of the given id, and the command is under way.
C38_Confirmed(site, ident) ==
    /\ confirm.site = site
    /\ confirm.node = ident
    /\ confirm.answer = "Delete"

\* Claim C38: no rm call and no recursive deletion (its ls, rm and rmdir
\* calls) runs through the file operations for a node unless the user
\* answered 'Delete' to a confirmation naming that node, and the node
\* confirmed is a file for removeFile and a directory for removeDirectory.
C38_DeletionConfirmed ==
    /\ \A p \in procs :
         p.site = "removeFile" =>
           /\ p.argv[2] = CliFile.id
           /\ C38_Confirmed("removeFile", p.argv[2])
    /\ (status = "running" \/ inflight # {}) =>
         /\ stack[1].dir = DirId(1)
         /\ C38_Confirmed("removeDirectory", IdString(DirId(1)))

\* Claim C38, second part: removeFile on a directory node and
\* removeDirectory on a file node issue no remote call at all: the command
\* ends at once with no process spawned and no deletion started.
C38_WrongKindNoCall ==
    \A confirmation \in DeleteAnswers :
      (RemoveFileAsk(CliFolder, confirmation) \/ RemoveDirectoryAsk(CliFile, confirmation)) =>
        /\ procs' = {}
        /\ inflight' = {}
        /\ status' # "running"
        /\ confirm' = NoConfirm
        /\ opDone'.calls = 0
        /\ opDone'.returned = "false"

\* Claim C38, both parts.
C38_DeleteOnlyConfirmed ==
    []C38_DeletionConfirmed /\ [][C38_WrongKindNoCall]_vars

\* A confirmed deletion of a directory has an rm call in flight below its
\* root.
C38_Witness ==
    /\ status = "running"
    /\ Len(stack) = 2
    /\ \E c \in inflight : c.op = "rm"
    /\ C38_Confirmed("removeDirectory", DelNode.id)

\* A confirmed removeFile has its rm process running.
C38_WitnessFile ==
    \E p \in procs : p.site = "removeFile" /\ C38_Confirmed("removeFile", CliFile.id)


\* The argument list of the call of event j, as it was built.
C39_Argv(j) ==
    DelArgs(CallRec(trace[j].op, trace[j].arg), trace[j].space)

\* The argument list the call of event j has under the space given when the
\* invocation started, the one its first ls call was built with.
C39_ArgvAtStart(j) ==
    DelArgs(CallRec(trace[j].op, trace[j].arg), trace[1].space)

\* Claim C39: all ls, rm and rmdir calls issued by one deleteRemoteDirectory
\* invocation, at every recursion depth, carry the space qualifier given
\* when the invocation started, whatever space the file operations hold
\* when the call is issued.
C39_QualifierOfStart ==
    \A j \in Idx :
      trace[j].k = "call" =>
        /\ C39_Argv(j) = C39_ArgvAtStart(j)
        /\ trace[j].space = delSpace

\* Claim C39, second part: a space switch while the deletion runs leaves the
\* space of the invocation, and so the qualifier of its later calls, as it
\* was.
C39_SwitchKeepsQualifier ==
    (status = "running" /\ status' = "running") => delSpace' = delSpace

\* Claim C39, both parts.
C39_SpaceFixedAtStart ==
    []C39_QualifierOfStart /\ [][C39_SwitchKeepsQualifier]_vars

\* A deletion started under space-1; the space was switched to my-home while
\* it ran, and a call issued after the switch in a subdirectory still
\* carries '-space-id space-1'.
C39_Witness ==
    /\ status = "running"
    /\ Len(stack) = 2
    /\ trace[1].held = "space-1"
    /\ opsSpace = "my-home"
    /\ LET j == Len(trace)
       IN  /\ trace[j].k = "call"
           /\ trace[j].op \in {"ls", "rm"}
           /\ trace[j].held = "my-home"
           /\ SubSeq(C39_Argv(j), Len(C39_Argv(j)) - 1, Len(C39_Argv(j))) =
                <<"-space-id", "space-1">>

====
